---- MODULE Spec2Model ----
(***************************************************************************)
(* fast-pypi storage backends: the local filesystem backend and the Azure  *)
(* blob backend behind AbstractBackendInterface, as state machines over    *)
(* the durable store each of them mutates.                                 *)
(*                                                                         *)
(* Strings (project names, versions, file names, blob names, bytes) are    *)
(* sequences of one-character strings, so that startswith, endswith,       *)
(* removeprefix, split, the '.sha256' suffix and pypi_normalize are        *)
(* computed character by character as the Python code computes them.       *)
(*                                                                         *)
(* The backends keep no state between calls but the store, so the state of *)
(* the model is the configuration and the store.  Each handler is an       *)
(* operator from the store (and its arguments) to its Outcome: the store   *)
(* it leaves, the value it returns or the exception it raises, and the     *)
(* number of write calls it issued.  The actions apply the handlers; the   *)
(* properties speak about the handlers' outcomes in every reachable state. *)
(***************************************************************************)
EXTENDS Integers, Sequences, FiniteSets, TLC

VARIABLES
    backend,          \* FastPypiConfig.backend: "localfs" or "azure_blob"
    allow_overwrite,  \* FastPypiConfig.allow_overwrite
    store,            \* localfs: the directory tree under root_path;
                      \* azure_blob: the container, blob name -> data, metadata
    project_decision_func,  \* package_rbac.__project_decision_func: the decision
                      \* function in force, as the mapping from its input to
                      \* the value it returns
    in_flight,        \* the backend calls in flight: for each, its arguments
                      \* and how far it has got
    config            \* the AzureBlobConfig the object-storage backend holds
                      \* (self.config), or what its construction came to

vars == <<backend, allow_overwrite, store, project_decision_func, in_flight, config>>

----------------------------------------------------------------------------
(* Python values *)

\* Python's None (never equal to a string of the model: "None" is no character)
None == <<"None">>

\* `x or y` on str | None: None and '' are falsy
Truthy(x) == x # None /\ x # <<>>

\* str.startswith
StartsWith(s, prefix) ==
    Len(s) >= Len(prefix) /\ SubSeq(s, 1, Len(prefix)) = prefix

\* str.endswith
EndsWith(s, suffix) ==
    Len(s) >= Len(suffix) /\ SubSeq(s, Len(s) - Len(suffix) + 1, Len(s)) = suffix

\* str.removeprefix
RemovePrefix(s, prefix) ==
    IF StartsWith(s, prefix) THEN SubSeq(s, Len(prefix) + 1, Len(s)) ELSE s

\* str.removesuffix
RemoveSuffix(s, suffix) ==
    IF EndsWith(s, suffix) THEN SubSeq(s, 1, Len(s) - Len(suffix)) ELSE s

\* `sep in s` for a one-character separator
Contains(s, ch) == \E i \in 1..Len(s) : s[i] = ch

\* the index of the first occurrence of ch in s (0 when there is none)
IndexOf(s, ch) ==
    IF Contains(s, ch)
    THEN CHOOSE i \in 1..Len(s) : s[i] = ch /\ \A j \in 1..(i - 1) : s[j] # ch
    ELSE 0

\* s.split(ch, maxsplit=1): one part when ch does not occur, else two
Split1(s, ch) ==
    IF Contains(s, ch)
    THEN <<SubSeq(s, 1, IndexOf(s, ch) - 1), SubSeq(s, IndexOf(s, ch) + 1, Len(s))>>
    ELSE <<s>>

\* str.strip() of whitespace
IsSpace(ch) == ch \in {" ", "\n", "\t", "\r"}

RECURSIVE LStrip(_)
LStrip(s) == IF s # <<>> /\ IsSpace(Head(s)) THEN LStrip(Tail(s)) ELSE s

RECURSIVE RStrip(_)
RStrip(s) ==
    IF s # <<>> /\ IsSpace(s[Len(s)]) THEN RStrip(SubSeq(s, 1, Len(s) - 1)) ELSE s

Strip(s) == RStrip(LStrip(s))

\* The characters of the model in code-point order: Python compares str
\* code point by code point.
CodePoints ==
    <<"-", ".", "/", "0", "1", "2", "3", "4", "5", "6", "7", "8", "9",
      "A", "B", "C", "D", "E", "F", "G", "H", "I", "J", "K", "L", "M",
      "N", "O", "P", "Q", "R", "S", "T", "U", "V", "W", "X", "Y", "Z",
      "_",
      "a", "b", "c", "d", "e", "f", "g", "h", "i", "j", "k", "l", "m",
      "n", "o", "p", "q", "r", "s", "t", "u", "v", "w", "x", "y", "z">>

Ord(ch) == CHOOSE i \in 1..Len(CodePoints) : CodePoints[i] = ch

\* str.__lt__
RECURSIVE StrLess(_, _)
StrLess(a, b) ==
    IF b = <<>> THEN FALSE
    ELSE IF a = <<>> THEN TRUE
    ELSE IF Head(a) = Head(b) THEN StrLess(Tail(a), Tail(b))
    ELSE Ord(Head(a)) < Ord(Head(b))

\* tuple.__lt__ on tuples of str of the same length
RECURSIVE TupleLess(_, _)
TupleLess(a, b) ==
    IF a = <<>> \/ b = <<>> THEN a = <<>> /\ b # <<>>
    ELSE IF Head(a) = Head(b) THEN TupleLess(Tail(a), Tail(b))
    ELSE StrLess(Head(a), Head(b))

\* sorted(S) of a set of str
RECURSIVE SortedStrs(_)
SortedStrs(S) ==
    IF S = {} THEN <<>>
    ELSE LET m == CHOOSE x \in S : \A y \in S \ {x} : StrLess(x, y)
         IN  <<m>> \o SortedStrs(S \ {m})

\* str.lower() of one character
LowerChar(ch) ==
    LET upper == <<"A", "B", "C", "D", "E", "F", "G", "H", "I", "J", "K", "L", "M",
                   "N", "O", "P", "Q", "R", "S", "T", "U", "V", "W", "X", "Y", "Z">>
        lower == <<"a", "b", "c", "d", "e", "f", "g", "h", "i", "j", "k", "l", "m",
                   "n", "o", "p", "q", "r", "s", "t", "u", "v", "w", "x", "y", "z">>
    IN  IF \E i \in 1..26 : upper[i] = ch
        THEN lower[CHOOSE i \in 1..26 : upper[i] = ch]
        ELSE ch

Lower(s) == [i \in 1..Len(s) |-> LowerChar(s[i])]

\* the character class [-_.] of __NORMALIZE_PATTERN
IsNormalizeSep(ch) == ch \in {"-", "_", "."}

\* __NORMALIZE_PATTERN.sub('-', name): every maximal run of [-_.] becomes one '-'
RECURSIVE NormalizeSub(_)
NormalizeSub(s) ==
    IF s = <<>> THEN <<>>
    ELSE IF IsNormalizeSep(Head(s))
         THEN IF Tail(s) # <<>> /\ IsNormalizeSep(Head(Tail(s)))
              THEN NormalizeSub(Tail(s))
              ELSE <<"-">> \o NormalizeSub(Tail(s))
         ELSE <<Head(s)>> \o NormalizeSub(Tail(s))

pypi_normalize(name) == Lower(NormalizeSub(name))

\* hashlib.sha256(content).hexdigest(): a collision-free digest, the bytes
\* behind a marker that no content of the model starts with
Sha256(content) == <<"#">> \o content

\* '.sha256', the suffix of the sidecar file and of excluded listing entries
Sha256Suffix == <<".", "s", "h", "a", "2", "5", "6">>

WhlSuffix == <<".", "w", "h", "l">>

TarGzSuffix == <<".", "t", "a", "r", ".", "g", "z">>

\* sha256_digest or hashlib.sha256(file_content).hexdigest()
set_sha256_digest(file_content, sha256_digest) ==
    IF Truthy(sha256_digest) THEN sha256_digest ELSE Sha256(file_content)

----------------------------------------------------------------------------
(* Return values and exceptions *)

ReturnNone == [tag |-> "None"]

ReturnBool(b) == [tag |-> "bool", value |-> b]

ReturnList(s) == [tag |-> "list", value |-> s]

FileContents(filename, content, sha256_digest) ==
    [tag |-> "FileContents", filename |-> filename, content |-> content,
     sha256_digest |-> sha256_digest]

ProjectFileExistsError(filename, project_name) ==
    [tag |-> "raise", exc |-> "ProjectFileExistsError",
     filename |-> filename, project_name |-> project_name]

Raise(exc) == [tag |-> "raise", exc |-> exc]

\* ProjectFileInfo without last_modified (a clock reading)
ProjectFileInfo(project_name, version, filename, size) ==
    [project_name |-> project_name, version |-> version,
     filename |-> filename, size |-> size]

\* sorted(S) of a set of tuples of str
RECURSIVE SortedTuples(_)
SortedTuples(S) ==
    IF S = {} THEN <<>>
    ELSE LET m == CHOOSE x \in S : \A y \in S \ {x} : TupleLess(x, y)
         IN  <<m>> \o SortedTuples(S \ {m})

\* a mapping without one key
Without(f, k) == [x \in DOMAIN f \ {k} |-> f[x]]

\* a mapping with one key set
With(f, k, v) == (k :> v) @@ f

----------------------------------------------------------------------------
(* LocalFSBackend: the directory tree under root_path.  A path is the tuple *)
(* of its components below root_path; tree.dirs holds the directories,     *)
(* tree.files maps each regular file to its bytes.                         *)

\* aiofiles_os.path.exists
path_exists(tree, path) ==
    \/ path = <<>> /\ tree.root_exists
    \/ path \in tree.dirs
    \/ path \in DOMAIN tree.files

\* aiofiles_os.path.isdir
path_isdir(tree, path) == (path = <<>> /\ tree.root_exists) \/ path \in tree.dirs

\* aiofiles_os.path.isfile
path_isfile(tree, path) == path \in DOMAIN tree.files

\* aiofiles_os.listdir / scandir: the names of the entries of a directory
listdir(tree, path) ==
    {x[Len(path) + 1] : x \in {y \in tree.dirs \cup DOMAIN tree.files :
                                  Len(y) = Len(path) + 1 /\ SubSeq(y, 1, Len(path)) = path}}

\* aiofiles_os.makedirs(path, exist_ok=True): the path and all its parents
makedirs(tree, path) ==
    [tree EXCEPT !.root_exists = TRUE,
                 !.dirs = @ \cup {SubSeq(path, 1, n) : n \in 1..Len(path)}]

\* open(path, 'wb') and write: creates or truncates the file
write_file(tree, path, data) == [tree EXCEPT !.files = With(@, path, data)]

\* aiofiles_os.remove of a file that exists
remove_file(tree, path) == [tree EXCEPT !.files = Without(@, path)]

\* aioshutil.rmtree(path, ignore_errors=True)
rmtree(tree, path) ==
    LET under(x) == Len(x) >= Len(path) /\ SubSeq(x, 1, Len(path)) = path
    IN  [tree EXCEPT !.dirs = {x \in @ : ~under(x)},
                     !.files = [x \in {y \in DOMAIN @ : ~under(y)} |-> @[x]]]

\* what a handler leaves behind: the store, its return value or exception,
\* and the number of write calls it issued
Outcome(st, res, n) == [store |-> st, result |-> res, writes |-> n]

LocalFSBackend_list_projects(tree) ==
    IF ~path_exists(tree, <<>>)
    THEN Outcome(tree, Raise("FileNotFoundError"), 0)
    ELSE LET projects == {project \in listdir(tree, <<>>) :
                            path_isdir(tree, <<project>>) /\ ~StartsWith(project, <<".">>)}
         IN  Outcome(tree, ReturnList(SortedStrs(projects)), 0)

LocalFSBackend_list_project_versions(tree, project_name) ==
    LET project_path == <<pypi_normalize(project_name)>>
        version_names == {d \in listdir(tree, project_path) :
                            path_isdir(tree, project_path \o <<d>>) /\ ~StartsWith(d, <<".">>)}
    IN  IF ~path_exists(tree, project_path)
        THEN Outcome(tree, ReturnList(<<>>), 0)
        ELSE Outcome(tree, ReturnList(SortedStrs(version_names)), 0)

LocalFSBackend_list_files_for_project(tree, project_name) ==
    LET project_path == <<project_name>>
        versions == {d \in listdir(tree, project_path) : path_isdir(tree, project_path \o <<d>>)}
        keys == {<<project_name, version, filename>> :
                    <<version, filename>> \in
                        {vf \in UNION {{<<d, n>> : n \in listdir(tree, project_path \o <<d>>)} : d \in versions} :
                            /\ path_isfile(tree, project_path \o vf)
                            /\ ~EndsWith(vf[2], Sha256Suffix)}}
        sorted == SortedTuples(keys)
        file_info(k) == ProjectFileInfo(k[1], k[2], k[3], Len(tree.files[project_path \o <<k[2], k[3]>>]))
    IN  IF ~path_exists(tree, project_path)
        THEN Outcome(tree, ReturnList(<<>>), 0)
        ELSE Outcome(tree, ReturnList([i \in 1..Len(sorted) |-> file_info(sorted[i])]), 0)

\* a get_file_contents that writes the sidecar on every read
LocalFSBackend_get_file_contents_rewriting(tree, project_name, version, filename) ==
    LET project_path == <<pypi_normalize(project_name), version>>
        file_path == project_path \o <<filename>>
        sha256_path == project_path \o <<filename \o Sha256Suffix>>
        content == tree.files[file_path]
    IN  IF ~path_exists(tree, file_path)
        THEN Outcome(tree, ReturnNone, 0)
        ELSE IF path_exists(tree, sha256_path)
        THEN Outcome(write_file(tree, sha256_path, Strip(tree.files[sha256_path])),
                     FileContents(filename, content, Strip(tree.files[sha256_path])), 1)
        ELSE Outcome(write_file(tree, sha256_path, Sha256(content)),
                     FileContents(filename, content, Sha256(content)), 1)

\* a get_file_contents that recomputes the digest and overwrites the sidecar
\* on every read
LocalFSBackend_get_file_contents_rehashing(tree, project_name, version, filename) ==
    LET project_path == <<pypi_normalize(project_name), version>>
        file_path == project_path \o <<filename>>
        sha256_path == project_path \o <<filename \o Sha256Suffix>>
        content == tree.files[file_path]
    IN  IF ~path_exists(tree, file_path)
        THEN Outcome(tree, ReturnNone, 0)
        ELSE IF path_exists(tree, sha256_path)
        THEN Outcome(write_file(tree, sha256_path, Sha256(content)),
                     FileContents(filename, content, Sha256(content)), 1)
        ELSE Outcome(write_file(tree, sha256_path, Sha256(content)),
                     FileContents(filename, content, Sha256(content)), 1)

LocalFSBackend_get_file_contents(tree, project_name, version, filename) ==
    LET project_path == <<pypi_normalize(project_name), version>>
        file_path == project_path \o <<filename>>
        sha256_path == project_path \o <<filename \o Sha256Suffix>>
        content == tree.files[file_path]
    IN  IF ~path_exists(tree, file_path)
        THEN Outcome(tree, ReturnNone, 0)
        ELSE IF path_exists(tree, sha256_path)
        THEN Outcome(tree, FileContents(filename, content, Strip(tree.files[sha256_path])), 0)
        ELSE Outcome(write_file(tree, sha256_path, Sha256(content)),
                     FileContents(filename, content, Sha256(content)), 1)

\* an upload_file that writes the content before it looks for a conflict
LocalFSBackend_upload_file_write_first(tree, overwrite, project_name, version, filename, file_content, sha256_digest) ==
    LET project_version_path == <<pypi_normalize(project_name), version>>
        made == makedirs(tree, project_version_path)
        file_path == project_version_path \o <<filename>>
        written == write_file(made, file_path, file_content)
    IN  IF ~overwrite /\ path_exists(made, file_path)
        THEN Outcome(written, ProjectFileExistsError(filename, project_name), 1)
        ELSE Outcome(write_file(written, project_version_path \o <<filename \o Sha256Suffix>>,
                                set_sha256_digest(file_content, sha256_digest)),
                     ReturnNone, 2)

LocalFSBackend_upload_file(tree, overwrite, project_name, version, filename, file_content, sha256_digest) ==
    LET project_version_path == <<pypi_normalize(project_name), version>>
        made == makedirs(tree, project_version_path)
        file_path == project_version_path \o <<filename>>
        written == write_file(made, file_path, file_content)
    IN  IF ~overwrite /\ path_exists(made, file_path)
        THEN Outcome(made, ProjectFileExistsError(filename, project_name), 0)
        ELSE Outcome(write_file(written, project_version_path \o <<filename \o Sha256Suffix>>,
                                set_sha256_digest(file_content, sha256_digest)),
                     ReturnNone, 2)

\* a delete_project_version that removes the sidecars and leaves the content files
LocalFSBackend_delete_project_version_sidecars_only(tree, project_name, version) ==
    LET project_path == <<pypi_normalize(project_name), version>>
        kept == {x \in DOMAIN tree.files :
                    ~(SubSeq(x, 1, 2) = project_path /\ EndsWith(x[Len(x)], Sha256Suffix))}
    IN  IF ~path_exists(tree, project_path)
        THEN Outcome(tree, ReturnBool(FALSE), 0)
        ELSE Outcome([tree EXCEPT !.files = [x \in kept |-> tree.files[x]]], ReturnBool(TRUE), 0)

LocalFSBackend_delete_project_version(tree, project_name, version) ==
    LET project_path == <<pypi_normalize(project_name), version>>
    IN  IF ~path_exists(tree, project_path)
        THEN Outcome(tree, ReturnBool(FALSE), 0)
        ELSE Outcome(rmtree(tree, project_path), ReturnBool(TRUE), 0)

LocalFSBackend_delete_project_version_file(tree, project_name, version, filename) ==
    LET project_path == <<pypi_normalize(project_name), version>>
        file_path == project_path \o <<filename>>
        sha256_path == project_path \o <<filename \o Sha256Suffix>>
        removed == remove_file(tree, file_path)
    IN  IF ~path_exists(tree, file_path)
        THEN Outcome(tree, ReturnBool(FALSE), 0)
        ELSE IF ~path_isfile(removed, sha256_path)
        THEN Outcome(removed, Raise("FileNotFoundError"), 0)
        ELSE Outcome(remove_file(removed, sha256_path), ReturnBool(TRUE), 0)

----------------------------------------------------------------------------
(* AzureBlobBackend: the blobs of one container.  A blob name is the string *)
(* base_path + project + '/' + version + '/' + filename; container[name]   *)
(* holds the blob's data and its metadata mapping.                         *)

\* the third group of _DESTINATION_PATH_PATTERN, (.+/): never empty, ends in '/'
base_path == <<"b", "/">>

Slash == <<"/">>

\* ContainerClient.list_blobs(name_starts_with=prefix): the names of the blobs
list_blobs(container, prefix) == {name \in DOMAIN container : StartsWith(name, prefix)}

\* ContainerClient.walk_blobs(name_starts_with=prefix, delimiter='/'): a blob
\* whose name has no delimiter after the prefix is listed by its name, the
\* others by their virtual directory, the name up to and including that delimiter
walk_blobs(container, prefix) ==
    {LET rest == RemovePrefix(name, prefix)
     IN  IF Contains(rest, "/") THEN prefix \o SubSeq(rest, 1, IndexOf(rest, "/")) ELSE name
     : name \in list_blobs(container, prefix)}

\* blob_props.metadata.get('sha256', None)
metadata_get_sha256(metadata) ==
    IF "sha256" \in DOMAIN metadata THEN metadata["sha256"] ELSE None

\* metadata={'sha256': digest}
Sha256Metadata(digest) == "sha256" :> digest

\* metadata={}
EmptyMetadata == [k \in {} |-> None]

Blob(data, metadata) == [data |-> data, metadata |-> metadata]

\* sorted([shown(name) for name in names]) from the pairs <<shown(name), name>>:
\* equal entries are kept, each once per name
SortedNames(shown) ==
    LET sorted == SortedTuples(shown)
    IN  [i \in 1..Len(sorted) |-> sorted[i][1]]

AzureBlobBackend_list_projects(container) ==
    LET blob_props == walk_blobs(container, base_path)
        shown(name) == RemoveSuffix(RemovePrefix(name, base_path), Slash)
    IN  Outcome(container,
                ReturnList(SortedNames({<<shown(name), name>> :
                                            name \in {n \in blob_props : Contains(n, "/")}})), 0)

AzureBlobBackend_list_project_versions(container, project_name) ==
    LET name_prefix == base_path \o project_name \o Slash
        blob_props == walk_blobs(container, name_prefix)
        shown(name) == RemoveSuffix(RemovePrefix(name, name_prefix), Slash)
    IN  Outcome(container,
                ReturnList(SortedNames({<<shown(name), name>> :
                                            name \in {n \in blob_props : Contains(n, "/")}})), 0)

AzureBlobBackend_list_files_for_project(container, project_name) ==
    LET name_prefix == base_path \o project_name \o Slash
        blob_props == SortedStrs(list_blobs(container, name_prefix))
        listed == SelectSeq(blob_props,
                      LAMBDA name : /\ ~EndsWith(name, Sha256Suffix)
                                    /\ (EndsWith(name, WhlSuffix) \/ EndsWith(name, TarGzSuffix)))
        parts(name) == Split1(RemovePrefix(name, name_prefix), "/")
    IN  IF \E i \in 1..Len(listed) : Len(parts(listed[i])) < 2
        THEN Outcome(container, Raise("IndexError"), 0)
        ELSE Outcome(container,
                     ReturnList([i \in 1..Len(listed) |->
                         ProjectFileInfo(project_name, parts(listed[i])[1], parts(listed[i])[2],
                                         Len(container[listed[i]].data))]), 0)

\* a get_file_contents that computes a missing digest and does not store it
AzureBlobBackend_get_file_contents_unpersisted(container, project_name, version, filename) ==
    LET blob_name == base_path \o project_name \o Slash \o version \o Slash \o filename
        file_content == container[blob_name].data
        sha256_digest == metadata_get_sha256(container[blob_name].metadata)
    IN  IF blob_name \notin DOMAIN container
        THEN Outcome(container, ReturnNone, 0)
        ELSE IF sha256_digest = None
        THEN Outcome(container, FileContents(filename, file_content, Sha256(file_content)), 0)
        ELSE Outcome(container, FileContents(filename, file_content, sha256_digest), 0)

AzureBlobBackend_get_file_contents(container, project_name, version, filename) ==
    LET blob_name == base_path \o project_name \o Slash \o version \o Slash \o filename
        file_content == container[blob_name].data
        sha256_digest == metadata_get_sha256(container[blob_name].metadata)
    IN  IF blob_name \notin DOMAIN container
        THEN Outcome(container, ReturnNone, 0)
        ELSE IF sha256_digest = None
        THEN Outcome(With(container, blob_name,
                          Blob(file_content, Sha256Metadata(Sha256(file_content)))),
                     FileContents(filename, file_content, Sha256(file_content)), 1)
        ELSE Outcome(container, FileContents(filename, file_content, sha256_digest), 0)

\* an upload_file that keeps the metadata of the blob it overwrites
AzureBlobBackend_upload_file_keeping_metadata(container, overwrite, project_name, version, filename, file_content, sha256_digest) ==
    LET blob_name == base_path \o project_name \o Slash \o version \o Slash \o filename
        metadata == IF blob_name \in DOMAIN container
                    THEN container[blob_name].metadata
                    ELSE Sha256Metadata(set_sha256_digest(file_content, sha256_digest))
    IN  IF ~overwrite /\ blob_name \in DOMAIN container
        THEN Outcome(container, ProjectFileExistsError(filename, project_name), 0)
        ELSE Outcome(With(container, blob_name, Blob(file_content, metadata)), ReturnNone, 1)

AzureBlobBackend_upload_file(container, overwrite, project_name, version, filename, file_content, sha256_digest) ==
    LET blob_name == base_path \o project_name \o Slash \o version \o Slash \o filename
    IN  IF ~overwrite /\ blob_name \in DOMAIN container
        THEN Outcome(container, ProjectFileExistsError(filename, project_name), 0)
        ELSE Outcome(With(container, blob_name,
                          Blob(file_content,
                               Sha256Metadata(set_sha256_digest(file_content, sha256_digest)))),
                     ReturnNone, 1)

AzureBlobBackend_delete_project_version(container, project_name, version) ==
    LET blob_name_prefix == base_path \o project_name \o Slash \o version \o Slash
        blob_props == list_blobs(container, blob_name_prefix)
    IN  IF blob_props = {}
        THEN Outcome(container, ReturnBool(FALSE), 0)
        ELSE Outcome([name \in DOMAIN container \ blob_props |-> container[name]],
                     ReturnBool(TRUE), 0)

\* a delete_project_version_file that deletes every blob of the version
AzureBlobBackend_delete_project_version_file_whole_version(container, project_name, version, filename) ==
    LET blob_name == base_path \o project_name \o Slash \o version \o Slash \o filename
        blob_name_prefix == base_path \o project_name \o Slash \o version \o Slash
    IN  IF blob_name \notin DOMAIN container
        THEN Outcome(container, ReturnBool(FALSE), 0)
        ELSE Outcome([name \in DOMAIN container \ list_blobs(container, blob_name_prefix) |-> container[name]],
                     ReturnBool(TRUE), 0)

AzureBlobBackend_delete_project_version_file(container, project_name, version, filename) ==
    LET blob_name == base_path \o project_name \o Slash \o version \o Slash \o filename
    IN  IF blob_name \notin DOMAIN container
        THEN Outcome(container, ReturnBool(FALSE), 0)
        ELSE Outcome(Without(container, blob_name), ReturnBool(TRUE), 0)

----------------------------------------------------------------------------
(* The inputs of the model *)

\* the project names uploads use: 'P_.q', which pypi_normalize maps to 'p-q',
\* and 'r'
UploadNames == {<<"P", "_", ".", "q">>, <<"r">>}

\* the project names the other calls use: those, and 'p-q'
ProjectNames == UploadNames \cup {<<"p", "-", "q">>}

\* versions '1' and '1.0'
Versions == {<<"1">>, <<"1", ".", "0">>}

\* 'a.whl' and 'n.txt'.  No file name of the model itself ends in '.sha256'.
Filenames == {<<"a">> \o WhlSuffix, <<"n", ".", "t", "x", "t">>}

\* file contents (ASCII bytes)
Contents == {<<"x">>, <<"y">>}

\* a well-formed digest that is the SHA-256 of no content of the model
WrongDigest == <<"#", "w">>

\* the sha256_digest argument of an upload of file_content: absent, the digest
\* of the content, or another digest
Digests(file_content) == {None, Sha256(file_content), WrongDigest}

\* how many artifacts the store may hold
MaxFiles == 2

----------------------------------------------------------------------------
(* The backend as a state machine: one action per operation of              *)
(* AbstractBackendInterface, each the whole handler of the configured       *)
(* backend.                                                                 *)

\* the input of an RBAC decision (the request itself is left out)
ProjectRBACDecisionInput(operation_type, project_name) ==
    [event |-> "decision", operation_type |-> operation_type, project_name |-> project_name]

OperationTypes == {"read", "write", "delete"}

\* the inputs a decision function is asked about
RbacInputs ==
    {ProjectRBACDecisionInput(o, p) : o \in OperationTypes, p \in ProjectNames \cup {None}}

\* _project_decision_noop
project_decision_noop == [rbac_input \in RbacInputs |-> TRUE]

\* no backend call in flight
NoCalls == <<>>

\* no AzureBlobConfig followed: the file-system backend holds a LocalFSConfig,
\* and an object-storage backend is followed from its AzureBlobConfig() call
\* only where the configuration is drawn (SpecConfig)
NoConfig == [tag |-> "None"]

\* LocalFSBackend(config, general_config) / AzureBlobBackend(config, general_config):
\* construction touches no storage; root_path may or may not exist yet.  The
\* decision function is the module's initial one.
Init ==
    /\ backend \in {"localfs", "azure_blob"}
    /\ allow_overwrite \in BOOLEAN
    /\ project_decision_func = project_decision_noop
    /\ in_flight = NoCalls
    /\ config = NoConfig
    /\ store \in IF backend = "localfs"
                 THEN {[root_exists |-> r, dirs |-> {}, files |-> [x \in {} |-> None]] : r \in BOOLEAN}
                 ELSE {[x \in {} |-> None]}

\* the number of stored artifacts
StoredCount(st) ==
    IF backend = "localfs"
    THEN Cardinality({path \in DOMAIN st.files : ~EndsWith(path[Len(path)], Sha256Suffix)})
    ELSE Cardinality(DOMAIN st)

Backend_list_projects(st) ==
    IF backend = "localfs" THEN LocalFSBackend_list_projects(st)
    ELSE AzureBlobBackend_list_projects(st)

Backend_list_project_versions(st, project_name) ==
    IF backend = "localfs" THEN LocalFSBackend_list_project_versions(st, project_name)
    ELSE AzureBlobBackend_list_project_versions(st, project_name)

Backend_list_files_for_project(st, project_name) ==
    IF backend = "localfs" THEN LocalFSBackend_list_files_for_project(st, project_name)
    ELSE AzureBlobBackend_list_files_for_project(st, project_name)

Backend_get_file_contents(st, project_name, version, filename) ==
    IF backend = "localfs" THEN LocalFSBackend_get_file_contents(st, project_name, version, filename)
    ELSE AzureBlobBackend_get_file_contents(st, project_name, version, filename)

Backend_upload_file(st, project_name, version, filename, file_content, sha256_digest) ==
    IF backend = "localfs"
    THEN LocalFSBackend_upload_file(st, allow_overwrite, project_name, version, filename,
                                    file_content, sha256_digest)
    ELSE AzureBlobBackend_upload_file(st, allow_overwrite, project_name, version, filename,
                                      file_content, sha256_digest)

Backend_delete_project_version(st, project_name, version) ==
    IF backend = "localfs" THEN LocalFSBackend_delete_project_version(st, project_name, version)
    ELSE AzureBlobBackend_delete_project_version(st, project_name, version)

Backend_delete_project_version_file(st, project_name, version, filename) ==
    IF backend = "localfs"
    THEN LocalFSBackend_delete_project_version_file(st, project_name, version, filename)
    ELSE AzureBlobBackend_delete_project_version_file(st, project_name, version, filename)

list_projects ==
    /\ store' = Backend_list_projects(store).store
    /\ UNCHANGED <<backend, allow_overwrite, project_decision_func, in_flight, config>>

list_project_versions(project_name) ==
    /\ store' = Backend_list_project_versions(store, project_name).store
    /\ UNCHANGED <<backend, allow_overwrite, project_decision_func, in_flight, config>>

list_files_for_project(project_name) ==
    /\ store' = Backend_list_files_for_project(store, project_name).store
    /\ UNCHANGED <<backend, allow_overwrite, project_decision_func, in_flight, config>>

get_file_contents(project_name, version, filename) ==
    /\ store' = Backend_get_file_contents(store, project_name, version, filename).store
    /\ UNCHANGED <<backend, allow_overwrite, project_decision_func, in_flight, config>>

\* the store holds at most MaxFiles artifacts
upload_file(project_name, version, filename, file_content, sha256_digest) ==
    LET out == Backend_upload_file(store, project_name, version, filename, file_content, sha256_digest)
    IN  /\ StoredCount(out.store) <= MaxFiles
        /\ store' = out.store
        /\ UNCHANGED <<backend, allow_overwrite, project_decision_func, in_flight, config>>

delete_project_version(project_name, version) ==
    /\ store' = Backend_delete_project_version(store, project_name, version).store
    /\ UNCHANGED <<backend, allow_overwrite, project_decision_func, in_flight, config>>

delete_project_version_file(project_name, version, filename) ==
    /\ store' = Backend_delete_project_version_file(store, project_name, version, filename).store
    /\ UNCHANGED <<backend, allow_overwrite, project_decision_func, in_flight, config>>

Next ==
    \/ list_projects
    \/ \E p \in ProjectNames : list_project_versions(p)
    \/ \E p \in ProjectNames : list_files_for_project(p)
    \/ \E p \in ProjectNames, v \in Versions, f \in Filenames : get_file_contents(p, v, f)
    \/ \E p \in UploadNames, v \in Versions, f \in Filenames, c \in Contents :
           \E d \in Digests(c) : upload_file(p, v, f, c, d)
    \/ \E p \in ProjectNames, v \in Versions : delete_project_version(p, v)
    \/ \E p \in ProjectNames, v \in Versions, f \in Filenames : delete_project_version_file(p, v, f)

\* the backend called sequentially, nothing else touching the store
Spec == Init /\ [][Next]_vars

----------------------------------------------------------------------------
(* The store written from outside the backend, as the backend tests do to   *)
(* produce an artifact without a digest: a file written into the version    *)
(* directory with no sidecar, a blob uploaded with empty metadata.          *)

\* content only the out-of-band writer writes
ExternalContent == <<"z">>

\* the project directory or prefix the out-of-band writer writes under: 'r',
\* where uploads write too
ExternalNames == {<<"r">>}

external_write_without_digest(project, version, filename) ==
    LET file_path == <<project, version, filename>>
        blob_name == base_path \o project \o Slash \o version \o Slash \o filename
        written == IF backend = "localfs"
                   THEN write_file(makedirs(store, <<project, version>>), file_path, ExternalContent)
                   ELSE With(store, blob_name, Blob(ExternalContent, EmptyMetadata))
    IN  /\ IF backend = "localfs" THEN ~path_exists(store, file_path)
                                  ELSE blob_name \notin DOMAIN store
        /\ StoredCount(written) <= MaxFiles
        /\ store' = written
        /\ UNCHANGED <<backend, allow_overwrite, project_decision_func, in_flight, config>>

NextEnv ==
    \/ Next
    \/ \E p \in ExternalNames, v \in Versions, f \in Filenames :
           external_write_without_digest(p, v, f)

\* the backend called sequentially, and artifacts written out of band
SpecEnv == Init /\ [][NextEnv]_vars

----------------------------------------------------------------------------
(* upload_file with a storage fault: one of the awaited I/O calls of the    *)
(* handler raises OSError.  What the calls before it wrote stays written;   *)
(* a faulting write has either written nothing or has opened the file,      *)
(* which truncates it ('wb'), and written nothing more.                     *)

\* the awaited I/O calls of LocalFSBackend.upload_file
LocalFSFaultSteps == {"makedirs", "exists", "write_content", "write_sidecar"}

\* the awaited I/O calls of AzureBlobBackend.upload_file
AzureBlobFaultSteps == {"exists", "upload_blob"}

\* the handler when the call `step` raises; the handler's own outcome when it
\* ends before it makes that call
LocalFSBackend_upload_file_fault(tree, overwrite, project_name, version, filename, file_content, step, truncated) ==
    LET project_version_path == <<pypi_normalize(project_name), version>>
        made == makedirs(tree, project_version_path)
        file_path == project_version_path \o <<filename>>
        sha256_path == project_version_path \o <<filename \o Sha256Suffix>>
        written == write_file(made, file_path, file_content)
    IN  IF step = "makedirs"
        THEN Outcome(tree, Raise("OSError"), 0)
        ELSE IF ~overwrite /\ step = "exists"
        THEN Outcome(made, Raise("OSError"), 0)
        ELSE IF ~overwrite /\ path_exists(made, file_path)
        THEN Outcome(made, ProjectFileExistsError(filename, project_name), 0)
        ELSE IF step = "write_content"
        THEN Outcome(IF truncated THEN write_file(made, file_path, <<>>) ELSE made,
                     Raise("OSError"), 0)
        ELSE IF step = "write_sidecar"
        THEN Outcome(IF truncated THEN write_file(written, sha256_path, <<>>) ELSE written,
                     Raise("OSError"), 1)
        ELSE LocalFSBackend_upload_file(tree, overwrite, project_name, version, filename,
                                        file_content, None)

AzureBlobBackend_upload_file_fault(container, overwrite, project_name, version, filename, file_content, step, truncated) ==
    LET blob_name == base_path \o project_name \o Slash \o version \o Slash \o filename
    IN  IF ~overwrite /\ step = "exists"
        THEN Outcome(container, Raise("OSError"), 0)
        ELSE IF ~overwrite /\ blob_name \in DOMAIN container
        THEN Outcome(container, ProjectFileExistsError(filename, project_name), 0)
        ELSE IF step = "upload_blob"
        THEN Outcome(container, Raise("OSError"), 0)
        ELSE AzureBlobBackend_upload_file(container, overwrite, project_name, version, filename,
                                          file_content, None)

FaultSteps == IF backend = "localfs" THEN LocalFSFaultSteps ELSE AzureBlobFaultSteps

Backend_upload_file_fault(st, project_name, version, filename, file_content, step, truncated) ==
    IF backend = "localfs"
    THEN LocalFSBackend_upload_file_fault(st, allow_overwrite, project_name, version, filename,
                                          file_content, step, truncated)
    ELSE AzureBlobBackend_upload_file_fault(st, allow_overwrite, project_name, version, filename,
                                            file_content, step, truncated)

\* an upload_file call that a storage fault ends
upload_file_fault(project_name, version, filename, file_content, step, truncated) ==
    LET out == Backend_upload_file_fault(store, project_name, version, filename, file_content,
                                         step, truncated)
    IN  /\ step \in FaultSteps
        /\ out.result = Raise("OSError")
        /\ StoredCount(out.store) <= MaxFiles
        /\ store' = out.store
        /\ UNCHANGED <<backend, allow_overwrite, project_decision_func, in_flight, config>>

NextFault ==
    \/ Next
    \/ \E p \in ExternalNames, v \in Versions, f \in Filenames, c \in Contents,
          step \in LocalFSFaultSteps \cup AzureBlobFaultSteps, truncated \in BOOLEAN :
           upload_file_fault(p, v, f, c, step, truncated)

\* the backend called sequentially, with storage faults in upload_file
SpecFault == Init /\ [][NextFault]_vars

----------------------------------------------------------------------------
(* The deletes with a storage fault.  os.remove and a blob delete either    *)
(* remove their target or raise without removing it.  rmtree is called with *)
(* ignore_errors=True: an entry it cannot remove stays, with the            *)
(* directories above it, and the call returns normally.                     *)

\* aioshutil.rmtree(path, ignore_errors=True) when removing the file
\* `failing` fails; <<>> when nothing fails
rmtree_ignore_errors(tree, path, failing) ==
    LET under(x) == Len(x) >= Len(path) /\ SubSeq(x, 1, Len(path)) = path
        above_failing(x) == Len(x) < Len(failing) /\ SubSeq(failing, 1, Len(x)) = x
    IN  [tree EXCEPT !.dirs = {x \in @ : ~under(x) \/ above_failing(x)},
                     !.files = [x \in {y \in DOMAIN @ : ~under(y) \/ y = failing} |-> @[x]]]

\* delete_project_version_file when the call `step` raises: 'exists',
\* 'remove_content' or 'remove_sidecar'
LocalFSBackend_delete_project_version_file_fault(tree, project_name, version, filename, step) ==
    LET project_path == <<pypi_normalize(project_name), version>>
        file_path == project_path \o <<filename>>
        removed == remove_file(tree, file_path)
    IN  IF step = "exists"
        THEN Outcome(tree, Raise("OSError"), 0)
        ELSE IF ~path_exists(tree, file_path)
        THEN Outcome(tree, ReturnBool(FALSE), 0)
        ELSE IF step = "remove_content"
        THEN Outcome(tree, Raise("OSError"), 0)
        ELSE IF step = "remove_sidecar"
        THEN Outcome(removed, Raise("OSError"), 0)
        ELSE LocalFSBackend_delete_project_version_file(tree, project_name, version, filename)

\* delete_project_version when the call `step` fails: 'exists' raises,
\* 'rmtree' cannot remove the file `failing`
LocalFSBackend_delete_project_version_fault(tree, project_name, version, step, failing) ==
    LET project_path == <<pypi_normalize(project_name), version>>
    IN  IF step = "exists"
        THEN Outcome(tree, Raise("OSError"), 0)
        ELSE IF ~path_exists(tree, project_path)
        THEN Outcome(tree, ReturnBool(FALSE), 0)
        ELSE IF step = "rmtree" /\ failing \in DOMAIN tree.files
        THEN Outcome(rmtree_ignore_errors(tree, project_path, failing), ReturnBool(TRUE), 0)
        ELSE LocalFSBackend_delete_project_version(tree, project_name, version)

\* delete_project_version_file when the call `step` raises: 'exists' or
\* 'delete_blob'
AzureBlobBackend_delete_project_version_file_fault(container, project_name, version, filename, step) ==
    LET blob_name == base_path \o project_name \o Slash \o version \o Slash \o filename
    IN  IF step = "exists"
        THEN Outcome(container, Raise("OSError"), 0)
        ELSE IF blob_name \notin DOMAIN container
        THEN Outcome(container, ReturnBool(FALSE), 0)
        ELSE IF step = "delete_blob"
        THEN Outcome(container, Raise("OSError"), 0)
        ELSE AzureBlobBackend_delete_project_version_file(container, project_name, version,
                                                          filename)

\* a delete_project_version that goes on to the blobs after the one whose
\* delete_blob failed, and raises at the end
AzureBlobBackend_delete_project_version_fault_continuing(container, project_name, version, step, k) ==
    LET blob_name_prefix == base_path \o project_name \o Slash \o version \o Slash
        blob_props == SortedNames({<<name, name>> :
                                      name \in list_blobs(container, blob_name_prefix)})
        deleted == {blob_props[i] : i \in (1..Len(blob_props)) \ {k}}
    IN  IF step = "list_blobs"
        THEN Outcome(container, Raise("OSError"), 0)
        ELSE IF blob_props = <<>>
        THEN Outcome(container, ReturnBool(FALSE), 0)
        ELSE IF step = "delete_blob" /\ k <= Len(blob_props)
        THEN Outcome([name \in DOMAIN container \ deleted |-> container[name]],
                     Raise("OSError"), 0)
        ELSE AzureBlobBackend_delete_project_version(container, project_name, version)

\* delete_project_version when the call `step` raises: 'list_blobs', or
\* 'delete_blob' for the k-th blob of the listing, which is in name order
AzureBlobBackend_delete_project_version_fault(container, project_name, version, step, k) ==
    LET blob_name_prefix == base_path \o project_name \o Slash \o version \o Slash
        blob_props == SortedNames({<<name, name>> :
                                      name \in list_blobs(container, blob_name_prefix)})
        deleted == {blob_props[i] : i \in 1..(k - 1)}
    IN  IF step = "list_blobs"
        THEN Outcome(container, Raise("OSError"), 0)
        ELSE IF blob_props = <<>>
        THEN Outcome(container, ReturnBool(FALSE), 0)
        ELSE IF step = "delete_blob" /\ k <= Len(blob_props)
        THEN Outcome([name \in DOMAIN container \ deleted |-> container[name]],
                     Raise("OSError"), 0)
        ELSE AzureBlobBackend_delete_project_version(container, project_name, version)

\* a delete_project_version_file call that a storage fault ends
delete_project_version_file_fault(project_name, version, filename, step) ==
    LET out == IF backend = "localfs"
               THEN LocalFSBackend_delete_project_version_file_fault(
                        store, project_name, version, filename, step)
               ELSE AzureBlobBackend_delete_project_version_file_fault(
                        store, project_name, version, filename, step)
    IN  /\ out.result = Raise("OSError")
        /\ store' = out.store
        /\ UNCHANGED <<backend, allow_overwrite, project_decision_func, in_flight, config>>

\* a delete_project_version call in which a storage call fails
delete_project_version_fault(project_name, version, step, filename, k) ==
    LET failing == <<pypi_normalize(project_name), version, filename>>
        out == IF backend = "localfs"
               THEN LocalFSBackend_delete_project_version_fault(
                        store, project_name, version, step, failing)
               ELSE AzureBlobBackend_delete_project_version_fault(
                        store, project_name, version, step, k)
    IN  /\ \/ out.result = Raise("OSError")
           \/ step = "rmtree" /\ backend = "localfs" /\ failing \in DOMAIN store.files
        /\ store' = out.store
        /\ UNCHANGED <<backend, allow_overwrite, project_decision_func, in_flight, config>>

\* the names of the files of a version directory: artifacts and sidecars
StoredFilenames == Filenames \cup {f \o Sha256Suffix : f \in Filenames}

NextDeleteFault ==
    \/ \E p \in ExternalNames, v \in Versions, f \in Filenames, c \in Contents :
           upload_file(p, v, f, c, None)
    \/ \E p \in ExternalNames, v \in Versions, f \in Filenames : get_file_contents(p, v, f)
    \/ \E p \in ExternalNames, v \in Versions : delete_project_version(p, v)
    \/ \E p \in ExternalNames, v \in Versions, f \in Filenames :
           delete_project_version_file(p, v, f)
    \/ \E p \in ExternalNames, v \in Versions, f \in Filenames,
          step \in {"exists", "remove_content", "remove_sidecar", "delete_blob"} :
           delete_project_version_file_fault(p, v, f, step)
    \/ \E p \in ExternalNames, v \in Versions, f \in StoredFilenames,
          step \in {"exists", "rmtree", "list_blobs", "delete_blob"}, k \in 1..MaxFiles :
           delete_project_version_fault(p, v, step, f, k)

\* one project uploaded to, read and deleted from sequentially, with storage
\* faults in the deletes
SpecDeleteFault == Init /\ [][NextDeleteFault]_vars

----------------------------------------------------------------------------
(* Concurrent calls.  The handlers are coroutines: a call runs until its    *)
(* next await and other calls run between its awaited calls.  in_flight     *)
(* holds the calls in the order they were started; pc names the awaited     *)
(* call a call is about to make, 'done' when it has returned or raised;     *)
(* completed is its place in the order of completion, 0 while it runs.      *)

\* how many calls are started
MaxCalls == 2

Pending == [tag |-> "pending"]

\* one awaited call of LocalFSBackend.upload_file: the tree and the call
\* after it
LocalFSBackend_upload_file_await(tree, overwrite, call) ==
    LET project_version_path == <<pypi_normalize(call.project_name), call.version>>
        file_path == project_version_path \o <<call.filename>>
        sha256_path == project_version_path \o <<call.filename \o Sha256Suffix>>
    IN  CASE call.pc = "makedirs" ->
                [store |-> makedirs(tree, project_version_path),
                 call |-> [call EXCEPT !.pc = IF overwrite THEN "open_content" ELSE "exists"]]
          [] call.pc = "exists" ->
                IF path_exists(tree, file_path)
                THEN [store |-> tree,
                      call |-> [call EXCEPT
                                   !.pc = "done",
                                   !.result = ProjectFileExistsError(call.filename,
                                                                     call.project_name)]]
                ELSE [store |-> tree, call |-> [call EXCEPT !.pc = "open_content"]]
          [] call.pc = "open_content" ->
                IF ~path_isdir(tree, project_version_path)
                THEN [store |-> tree,
                      call |-> [call EXCEPT !.pc = "done",
                                            !.result = Raise("FileNotFoundError")]]
                ELSE [store |-> write_file(tree, file_path, <<>>),
                      call |-> [call EXCEPT !.pc = "write_content", !.wrote = TRUE]]
          [] call.pc = "write_content" ->
                [store |-> write_file(tree, file_path, call.file_content),
                 call |-> [call EXCEPT !.pc = "open_sidecar"]]
          [] call.pc = "open_sidecar" ->
                IF ~path_isdir(tree, project_version_path)
                THEN [store |-> tree,
                      call |-> [call EXCEPT !.pc = "done",
                                            !.result = Raise("FileNotFoundError")]]
                ELSE [store |-> write_file(tree, sha256_path, <<>>),
                      call |-> [call EXCEPT !.pc = "write_sidecar"]]
          [] call.pc = "write_sidecar" ->
                [store |-> write_file(tree, sha256_path,
                                      set_sha256_digest(call.file_content, call.sha256_digest)),
                 call |-> [call EXCEPT !.pc = "done", !.result = ReturnNone]]

\* an upload_file whose upload_blob keeps the metadata of the blob it
\* overwrites
AzureBlobBackend_upload_file_await_keeping_metadata(container, overwrite, call) ==
    LET blob_name == base_path \o call.project_name \o Slash \o call.version \o Slash
                         \o call.filename
    IN  CASE call.pc = "exists" ->
                IF blob_name \in DOMAIN container
                THEN [store |-> container,
                      call |-> [call EXCEPT
                                   !.pc = "done",
                                   !.result = ProjectFileExistsError(call.filename,
                                                                     call.project_name)]]
                ELSE [store |-> container, call |-> [call EXCEPT !.pc = "upload_blob"]]
          [] call.pc = "upload_blob" ->
                IF ~overwrite /\ blob_name \in DOMAIN container
                THEN [store |-> container,
                      call |-> [call EXCEPT !.pc = "done",
                                            !.result = Raise("ResourceExistsError")]]
                ELSE [store |-> With(container, blob_name,
                                     Blob(call.file_content,
                                          IF blob_name \in DOMAIN container
                                          THEN container[blob_name].metadata
                                          ELSE Sha256Metadata(set_sha256_digest(
                                                   call.file_content, call.sha256_digest)))),
                      call |-> [call EXCEPT !.pc = "done", !.result = ReturnNone,
                                            !.wrote = TRUE]]

\* one awaited call of AzureBlobBackend.upload_file.  upload_blob with
\* overwrite=False fails with ResourceExistsError on a blob that exists.
AzureBlobBackend_upload_file_await(container, overwrite, call) ==
    LET blob_name == base_path \o call.project_name \o Slash \o call.version \o Slash
                         \o call.filename
    IN  CASE call.pc = "exists" ->
                IF blob_name \in DOMAIN container
                THEN [store |-> container,
                      call |-> [call EXCEPT
                                   !.pc = "done",
                                   !.result = ProjectFileExistsError(call.filename,
                                                                     call.project_name)]]
                ELSE [store |-> container, call |-> [call EXCEPT !.pc = "upload_blob"]]
          [] call.pc = "upload_blob" ->
                IF ~overwrite /\ blob_name \in DOMAIN container
                THEN [store |-> container,
                      call |-> [call EXCEPT !.pc = "done",
                                            !.result = Raise("ResourceExistsError")]]
                ELSE [store |-> With(container, blob_name,
                                     Blob(call.file_content,
                                          Sha256Metadata(set_sha256_digest(
                                              call.file_content, call.sha256_digest)))),
                      call |-> [call EXCEPT !.pc = "done", !.result = ReturnNone,
                                            !.wrote = TRUE]]

\* a request handler calls upload_file: the call runs up to its first await
call_upload_file(project_name, version, filename, file_content, sha256_digest) ==
    /\ Len(in_flight) < MaxCalls
    /\ in_flight' = Append(in_flight,
           [operation |-> "upload_file", project_name |-> project_name,
            version |-> version, filename |-> filename,
            file_content |-> file_content, sha256_digest |-> sha256_digest,
            pc |-> IF backend = "localfs" THEN "makedirs"
                   ELSE IF allow_overwrite THEN "upload_blob" ELSE "exists",
            result |-> Pending, completed |-> 0, wrote |-> FALSE])
    /\ UNCHANGED <<backend, allow_overwrite, store, project_decision_func, config>>

\* the event loop resumes call i of in_flight, an upload_file, for one
\* awaited call
upload_file_await(i) ==
    LET out == IF backend = "localfs"
               THEN LocalFSBackend_upload_file_await(store, allow_overwrite, in_flight[i])
               ELSE AzureBlobBackend_upload_file_await(store, allow_overwrite, in_flight[i])
        returned == Cardinality({j \in DOMAIN in_flight : in_flight[j].pc = "done"})
    IN  /\ i \in DOMAIN in_flight
        /\ in_flight[i].operation = "upload_file"
        /\ in_flight[i].pc # "done"
        /\ store' = out.store
        /\ in_flight' = [in_flight EXCEPT
               ![i] = IF out.call.pc = "done"
                      THEN [out.call EXCEPT !.completed = returned + 1]
                      ELSE out.call]
        /\ UNCHANGED <<backend, allow_overwrite, project_decision_func, config>>

NextConcurrent ==
    \/ \E p \in ExternalNames, c \in Contents :
           \E d \in {None, Sha256(c)} :
               call_upload_file(p, <<"1">>, <<"a">> \o WhlSuffix, c, d)
    \/ \E i \in 1..MaxCalls : upload_file_await(i)

\* calls to one backend that interleave at their awaits
SpecConcurrent == Init /\ [][NextConcurrent]_vars

----------------------------------------------------------------------------
(* get_file_contents and the deletes as coroutines, running beside uploads. *)
(* A call record carries the coroutine's local variables.  A file call on   *)
(* a path that is gone raises FileNotFoundError, a blob call on a blob      *)
(* that is gone raises the SDK's ResourceNotFoundError.                     *)

\* one awaited call of LocalFSBackend.get_file_contents
LocalFSBackend_get_file_contents_await(tree, call) ==
    LET project_path == <<pypi_normalize(call.project_name), call.version>>
        file_path == project_path \o <<call.filename>>
        sha256_path == project_path \o <<call.filename \o Sha256Suffix>>
        raised == [call EXCEPT !.pc = "done", !.result = Raise("FileNotFoundError")]
    IN  CASE call.pc = "exists" ->
                IF ~path_exists(tree, file_path)
                THEN [store |-> tree, call |-> [call EXCEPT !.pc = "done", !.result = ReturnNone]]
                ELSE [store |-> tree, call |-> [call EXCEPT !.pc = "read_content"]]
          [] call.pc = "read_content" ->
                IF ~path_isfile(tree, file_path)
                THEN [store |-> tree, call |-> raised]
                ELSE [store |-> tree,
                      call |-> [call EXCEPT !.pc = "sidecar_exists",
                                            !.content = tree.files[file_path]]]
          [] call.pc = "sidecar_exists" ->
                [store |-> tree,
                 call |-> [call EXCEPT !.pc = IF path_exists(tree, sha256_path)
                                              THEN "read_sidecar" ELSE "open_sidecar"]]
          [] call.pc = "read_sidecar" ->
                IF ~path_isfile(tree, sha256_path)
                THEN [store |-> tree, call |-> raised]
                ELSE [store |-> tree,
                      call |-> [call EXCEPT
                                   !.pc = "done",
                                   !.result = FileContents(call.filename, call.content,
                                                           Strip(tree.files[sha256_path]))]]
          [] call.pc = "open_sidecar" ->
                IF ~path_isdir(tree, project_path)
                THEN [store |-> tree, call |-> raised]
                ELSE [store |-> write_file(tree, sha256_path, <<>>),
                      call |-> [call EXCEPT !.pc = "write_sidecar", !.wrote = TRUE]]
          [] call.pc = "write_sidecar" ->
                [store |-> IF path_isfile(tree, sha256_path)
                           THEN write_file(tree, sha256_path, Sha256(call.content))
                           ELSE tree,
                 call |-> [call EXCEPT
                              !.pc = "done",
                              !.result = FileContents(call.filename, call.content,
                                                      Sha256(call.content))]]

\* a get_file_contents whose self-heal stores the empty metadata
AzureBlobBackend_get_file_contents_await_clearing(container, call) ==
    LET blob_name == base_path \o call.project_name \o Slash \o call.version \o Slash
                         \o call.filename
        sha256_digest == metadata_get_sha256(container[blob_name].metadata)
        raised == [call EXCEPT !.pc = "done", !.result = Raise("ResourceNotFoundError")]
    IN  CASE call.pc = "exists" ->
                IF blob_name \notin DOMAIN container
                THEN [store |-> container,
                      call |-> [call EXCEPT !.pc = "done", !.result = ReturnNone]]
                ELSE [store |-> container, call |-> [call EXCEPT !.pc = "download_blob"]]
          [] call.pc = "download_blob" ->
                IF blob_name \notin DOMAIN container
                THEN [store |-> container, call |-> raised]
                ELSE [store |-> container,
                      call |-> [call EXCEPT !.pc = "get_blob_properties",
                                            !.content = container[blob_name].data]]
          [] call.pc = "get_blob_properties" ->
                IF blob_name \notin DOMAIN container
                THEN [store |-> container, call |-> raised]
                ELSE IF sha256_digest = None
                THEN [store |-> container, call |-> [call EXCEPT !.pc = "set_blob_metadata"]]
                ELSE [store |-> container,
                      call |-> [call EXCEPT
                                   !.pc = "done",
                                   !.result = FileContents(call.filename, call.content,
                                                           sha256_digest)]]
          [] call.pc = "set_blob_metadata" ->
                IF blob_name \notin DOMAIN container
                THEN [store |-> container, call |-> raised]
                ELSE [store |-> With(container, blob_name,
                                     Blob(container[blob_name].data, EmptyMetadata)),
                      call |-> [call EXCEPT
                                   !.pc = "done", !.wrote = TRUE,
                                   !.result = FileContents(call.filename, call.content,
                                                           Sha256(call.content))]]

\* one awaited call of AzureBlobBackend.get_file_contents
AzureBlobBackend_get_file_contents_await(container, call) ==
    LET blob_name == base_path \o call.project_name \o Slash \o call.version \o Slash
                         \o call.filename
        sha256_digest == metadata_get_sha256(container[blob_name].metadata)
        raised == [call EXCEPT !.pc = "done", !.result = Raise("ResourceNotFoundError")]
    IN  CASE call.pc = "exists" ->
                IF blob_name \notin DOMAIN container
                THEN [store |-> container,
                      call |-> [call EXCEPT !.pc = "done", !.result = ReturnNone]]
                ELSE [store |-> container, call |-> [call EXCEPT !.pc = "download_blob"]]
          [] call.pc = "download_blob" ->
                IF blob_name \notin DOMAIN container
                THEN [store |-> container, call |-> raised]
                ELSE [store |-> container,
                      call |-> [call EXCEPT !.pc = "get_blob_properties",
                                            !.content = container[blob_name].data]]
          [] call.pc = "get_blob_properties" ->
                IF blob_name \notin DOMAIN container
                THEN [store |-> container, call |-> raised]
                ELSE IF sha256_digest = None
                THEN [store |-> container, call |-> [call EXCEPT !.pc = "set_blob_metadata"]]
                ELSE [store |-> container,
                      call |-> [call EXCEPT
                                   !.pc = "done",
                                   !.result = FileContents(call.filename, call.content,
                                                           sha256_digest)]]
          [] call.pc = "set_blob_metadata" ->
                IF blob_name \notin DOMAIN container
                THEN [store |-> container, call |-> raised]
                ELSE [store |-> With(container, blob_name,
                                     Blob(container[blob_name].data,
                                          Sha256Metadata(Sha256(call.content)))),
                      call |-> [call EXCEPT
                                   !.pc = "done", !.wrote = TRUE,
                                   !.result = FileContents(call.filename, call.content,
                                                           Sha256(call.content))]]

\* one awaited call of LocalFSBackend.delete_project_version_file
LocalFSBackend_delete_project_version_file_await(tree, call) ==
    LET project_path == <<pypi_normalize(call.project_name), call.version>>
        file_path == project_path \o <<call.filename>>
        sha256_path == project_path \o <<call.filename \o Sha256Suffix>>
        raised == [call EXCEPT !.pc = "done", !.result = Raise("FileNotFoundError")]
    IN  CASE call.pc = "exists" ->
                IF ~path_exists(tree, file_path)
                THEN [store |-> tree,
                      call |-> [call EXCEPT !.pc = "done", !.result = ReturnBool(FALSE)]]
                ELSE [store |-> tree, call |-> [call EXCEPT !.pc = "remove_content"]]
          [] call.pc = "remove_content" ->
                IF ~path_isfile(tree, file_path)
                THEN [store |-> tree, call |-> raised]
                ELSE [store |-> remove_file(tree, file_path),
                      call |-> [call EXCEPT !.pc = "remove_sidecar"]]
          [] call.pc = "remove_sidecar" ->
                IF ~path_isfile(tree, sha256_path)
                THEN [store |-> tree, call |-> raised]
                ELSE [store |-> remove_file(tree, sha256_path),
                      call |-> [call EXCEPT !.pc = "done", !.result = ReturnBool(TRUE)]]

\* one awaited call of AzureBlobBackend.delete_project_version_file
AzureBlobBackend_delete_project_version_file_await(container, call) ==
    LET blob_name == base_path \o call.project_name \o Slash \o call.version \o Slash
                         \o call.filename
    IN  CASE call.pc = "exists" ->
                IF blob_name \notin DOMAIN container
                THEN [store |-> container,
                      call |-> [call EXCEPT !.pc = "done", !.result = ReturnBool(FALSE)]]
                ELSE [store |-> container, call |-> [call EXCEPT !.pc = "delete_blob"]]
          [] call.pc = "delete_blob" ->
                IF blob_name \notin DOMAIN container
                THEN [store |-> container,
                      call |-> [call EXCEPT !.pc = "done",
                                            !.result = Raise("ResourceNotFoundError")]]
                ELSE [store |-> Without(container, blob_name),
                      call |-> [call EXCEPT !.pc = "done", !.result = ReturnBool(TRUE)]]

\* one awaited call of LocalFSBackend.delete_project_version; rmtree is one
\* awaited call and ignores errors
LocalFSBackend_delete_project_version_await(tree, call) ==
    LET project_path == <<pypi_normalize(call.project_name), call.version>>
    IN  CASE call.pc = "exists" ->
                IF ~path_exists(tree, project_path)
                THEN [store |-> tree,
                      call |-> [call EXCEPT !.pc = "done", !.result = ReturnBool(FALSE)]]
                ELSE [store |-> tree, call |-> [call EXCEPT !.pc = "rmtree"]]
          [] call.pc = "rmtree" ->
                [store |-> rmtree(tree, project_path),
                 call |-> [call EXCEPT !.pc = "done", !.result = ReturnBool(TRUE)]]

\* one awaited call of AzureBlobBackend.delete_project_version: the listing,
\* then one delete_blob for each listed blob, in name order
AzureBlobBackend_delete_project_version_await(container, call) ==
    LET blob_name_prefix == base_path \o call.project_name \o Slash \o call.version \o Slash
        listed == SortedNames({<<name, name>> :
                                  name \in list_blobs(container, blob_name_prefix)})
        blob == Head(call.blob_props)
        rest == Tail(call.blob_props)
    IN  CASE call.pc = "list_blobs" ->
                IF listed = <<>>
                THEN [store |-> container,
                      call |-> [call EXCEPT !.pc = "done", !.result = ReturnBool(FALSE)]]
                ELSE [store |-> container,
                      call |-> [call EXCEPT !.pc = "delete_blob", !.blob_props = listed]]
          [] call.pc = "delete_blob" ->
                IF blob \notin DOMAIN container
                THEN [store |-> container,
                      call |-> [call EXCEPT !.pc = "done",
                                            !.result = Raise("ResourceNotFoundError")]]
                ELSE IF rest = <<>>
                THEN [store |-> Without(container, blob),
                      call |-> [call EXCEPT !.pc = "done", !.blob_props = rest,
                                            !.result = ReturnBool(TRUE)]]
                ELSE [store |-> Without(container, blob),
                      call |-> [call EXCEPT !.blob_props = rest]]

\* a request handler calls get_file_contents
call_get_file_contents(project_name, version, filename) ==
    /\ Len(in_flight) < MaxCalls
    /\ in_flight' = Append(in_flight,
           [operation |-> "get_file_contents", project_name |-> project_name,
            version |-> version, filename |-> filename, content |-> None,
            pc |-> "exists", result |-> Pending, completed |-> 0, wrote |-> FALSE])
    /\ UNCHANGED <<backend, allow_overwrite, store, project_decision_func, config>>

\* the event loop resumes call i, a get_file_contents, for one awaited call
get_file_contents_await(i) ==
    LET out == IF backend = "localfs"
               THEN LocalFSBackend_get_file_contents_await(store, in_flight[i])
               ELSE AzureBlobBackend_get_file_contents_await(store, in_flight[i])
        returned == Cardinality({j \in DOMAIN in_flight : in_flight[j].pc = "done"})
    IN  /\ i \in DOMAIN in_flight
        /\ in_flight[i].operation = "get_file_contents"
        /\ in_flight[i].pc # "done"
        /\ store' = out.store
        /\ in_flight' = [in_flight EXCEPT
               ![i] = IF out.call.pc = "done"
                      THEN [out.call EXCEPT !.completed = returned + 1]
                      ELSE out.call]
        /\ UNCHANGED <<backend, allow_overwrite, project_decision_func, config>>

\* a request handler calls delete_project_version_file
call_delete_project_version_file(project_name, version, filename) ==
    /\ Len(in_flight) < MaxCalls
    /\ in_flight' = Append(in_flight,
           [operation |-> "delete_project_version_file", project_name |-> project_name,
            version |-> version, filename |-> filename,
            pc |-> "exists", result |-> Pending, completed |-> 0])
    /\ UNCHANGED <<backend, allow_overwrite, store, project_decision_func, config>>

\* the event loop resumes call i, a delete_project_version_file
delete_project_version_file_await(i) ==
    LET out == IF backend = "localfs"
               THEN LocalFSBackend_delete_project_version_file_await(store, in_flight[i])
               ELSE AzureBlobBackend_delete_project_version_file_await(store, in_flight[i])
        returned == Cardinality({j \in DOMAIN in_flight : in_flight[j].pc = "done"})
    IN  /\ i \in DOMAIN in_flight
        /\ in_flight[i].operation = "delete_project_version_file"
        /\ in_flight[i].pc # "done"
        /\ store' = out.store
        /\ in_flight' = [in_flight EXCEPT
               ![i] = IF out.call.pc = "done"
                      THEN [out.call EXCEPT !.completed = returned + 1]
                      ELSE out.call]
        /\ UNCHANGED <<backend, allow_overwrite, project_decision_func, config>>

\* a request handler calls delete_project_version
call_delete_project_version(project_name, version) ==
    /\ Len(in_flight) < MaxCalls
    /\ in_flight' = Append(in_flight,
           [operation |-> "delete_project_version", project_name |-> project_name,
            version |-> version, blob_props |-> <<>>,
            pc |-> IF backend = "localfs" THEN "exists" ELSE "list_blobs",
            result |-> Pending, completed |-> 0])
    /\ UNCHANGED <<backend, allow_overwrite, store, project_decision_func, config>>

\* the event loop resumes call i, a delete_project_version
delete_project_version_await(i) ==
    LET out == IF backend = "localfs"
               THEN LocalFSBackend_delete_project_version_await(store, in_flight[i])
               ELSE AzureBlobBackend_delete_project_version_await(store, in_flight[i])
        returned == Cardinality({j \in DOMAIN in_flight : in_flight[j].pc = "done"})
    IN  /\ i \in DOMAIN in_flight
        /\ in_flight[i].operation = "delete_project_version"
        /\ in_flight[i].pc # "done"
        /\ store' = out.store
        /\ in_flight' = [in_flight EXCEPT
               ![i] = IF out.call.pc = "done"
                      THEN [out.call EXCEPT !.completed = returned + 1]
                      ELSE out.call]
        /\ UNCHANGED <<backend, allow_overwrite, project_decision_func, config>>

\* no call in flight; the store is empty, or holds the artifact 'r', '1',
\* 'a.whl' as an upload leaves it, or as an out-of-band write leaves it,
\* without a digest
InitRace ==
    /\ backend \in {"localfs", "azure_blob"}
    /\ allow_overwrite \in BOOLEAN
    /\ project_decision_func = project_decision_noop
    /\ in_flight = NoCalls
    /\ config = NoConfig
    /\ store \in
           LET filename == <<"a">> \o WhlSuffix
               tree == [root_exists |-> TRUE, dirs |-> {}, files |-> [x \in {} |-> None]]
               container == [x \in {} |-> None]
           IN  IF backend = "localfs"
               THEN {tree,
                     write_file(makedirs(tree, <<<<"r">>, <<"1">>>>),
                                <<<<"r">>, <<"1">>, filename>>, ExternalContent)}
                    \cup {LocalFSBackend_upload_file(tree, TRUE, <<"r">>, <<"1">>, filename,
                                                     c, None).store : c \in Contents}
               ELSE {container,
                     With(container, base_path \o <<"r">> \o Slash \o <<"1">> \o Slash \o filename,
                          Blob(ExternalContent, EmptyMetadata))}
                    \cup {AzureBlobBackend_upload_file(container, TRUE, <<"r">>, <<"1">>, filename,
                                                       c, None).store : c \in Contents}

NextRace ==
    \/ \E p \in ExternalNames, c \in Contents :
           call_upload_file(p, <<"1">>, <<"a">> \o WhlSuffix, c, Sha256(c))
    \/ \E p \in ExternalNames : call_get_file_contents(p, <<"1">>, <<"a">> \o WhlSuffix)
    \/ \E p \in ExternalNames :
           call_delete_project_version_file(p, <<"1">>, <<"a">> \o WhlSuffix)
    \/ \E p \in ExternalNames : call_delete_project_version(p, <<"1">>)
    \/ \E i \in 1..MaxCalls : upload_file_await(i)
    \/ \E i \in 1..MaxCalls : get_file_contents_await(i)
    \/ \E i \in 1..MaxCalls : delete_project_version_file_await(i)
    \/ \E i \in 1..MaxCalls : delete_project_version_await(i)

\* one artifact read, overwritten and deleted by calls that interleave at
\* their awaits
SpecRace == InitRace /\ [][NextRace]_vars

----------------------------------------------------------------------------
(* Stray entries: a file written from outside the backend directly under    *)
(* the root or under a project directory, as test_list_files_for_project_   *)
(* os_error does, and the blob of the same name on the Azure backend.       *)

\* parent is <<>> (the root, the base path) or <<project>>
external_write_stray(parent, filename) ==
    LET file_path == parent \o <<filename>>
        blob_name == base_path \o (IF parent = <<>> THEN <<>> ELSE parent[1] \o Slash)
                         \o filename
        written == IF backend = "localfs"
                   THEN write_file(makedirs(store, parent), file_path, ExternalContent)
                   ELSE With(store, blob_name, Blob(ExternalContent, EmptyMetadata))
    IN  /\ IF backend = "localfs" THEN ~path_exists(store, file_path)
                                  ELSE blob_name \notin DOMAIN store
        /\ StoredCount(written) <= MaxFiles
        /\ store' = written
        /\ UNCHANGED <<backend, allow_overwrite, project_decision_func, in_flight, config>>

NextStray ==
    \/ Next
    \/ \E parent \in {<<>>} \cup {<<p>> : p \in ExternalNames}, f \in Filenames :
           external_write_stray(parent, f)

\* the backend called sequentially, and stray entries written out of band
SpecStray == Init /\ [][NextStray]_vars

-----------------------------------------------------------------------------
(* The object-storage configuration: AzureBlobConfig is validated when it   *)
(* is constructed, the backend's constructor stores it, and every operation *)
(* opens its container client from it.                                      *)

\* _DESTINATION_PATH_PATTERN = ^(https?://[^/]+(?::\d+)?)/([^/]+)/(.+/)$ :
\* the three groups when destination_path matches, None when it does not.
\* ([^/]+ takes an optional :port with it; .+/ needs one character before
\* the final slash)
DESTINATION_PATH_PATTERN_match(destination_path) ==
    LET http == <<"h", "t", "t", "p", ":", "/", "/">>
        https == <<"h", "t", "t", "p", "s", ":", "/", "/">>
        scheme == IF StartsWith(destination_path, https) THEN https
                  ELSE IF StartsWith(destination_path, http) THEN http
                  ELSE <<>>
        after_scheme == Split1(RemovePrefix(destination_path, scheme), "/")
        after_host == IF Len(after_scheme) = 2 THEN Split1(after_scheme[2], "/") ELSE <<>>
    IN  IF /\ scheme # <<>>
           /\ Len(after_scheme) = 2 /\ after_scheme[1] # <<>>
           /\ Len(after_host) = 2 /\ after_host[1] # <<>>
           /\ Len(after_host[2]) >= 2 /\ EndsWith(after_host[2], <<"/">>)
        THEN <<scheme \o after_scheme[1], after_host[1], after_host[2]>>
        ELSE None

\* AzureBlobConfig(destination_path=..., connection_string=...,
\* connection_method=...): pydantic checks destination_path against the
\* pattern and connection_method against its Literal; connection_string is
\* SecretStr | None, so any string is accepted
AzureBlobConfig(destination_path, connection_string, connection_method) ==
    IF \/ DESTINATION_PATH_PATTERN_match(destination_path) = None
       \/ connection_method \notin {"default", "managed_identity"}
    THEN Raise("ValidationError")
    ELSE [tag |-> "AzureBlobConfig",
          destination_path |-> destination_path,
          connection_string |-> connection_string,
          connection_method |-> connection_method]

\* ContainerClient.from_connection_string parses conn_str before anything is
\* sent: every ';'-separated setting must be key=value, else ValueError
parse_connection_str(conn_str) ==
    IF Len(Split1(conn_str, "=")) = 2
    THEN [tag |-> "dict", value |-> Split1(conn_str, "=")]
    ELSE Raise("ValueError")

\* a variant that leaves the connection string alone and always builds the
\* client from the credential of connection_method
azure_blob_container_client_by_credential(cfg) ==
    LET parsed == DESTINATION_PATH_PATTERN_match(cfg.destination_path)
    IN  [tag |-> "client", account_url |-> parsed[1], container_name |-> parsed[2],
         base_path |-> parsed[3], credential |-> cfg.connection_method]

\* azure_blob_container_client(config): what entering the context manager
\* comes to, the client and base path or the exception raised before any
\* request is made
azure_blob_container_client(cfg) ==
    LET parsed == DESTINATION_PATH_PATTERN_match(cfg.destination_path)
    IN  IF Truthy(cfg.connection_string)
        THEN IF parse_connection_str(cfg.connection_string).tag = "raise"
             THEN parse_connection_str(cfg.connection_string)
             ELSE [tag |-> "client", account_url |-> parsed[1], container_name |-> parsed[2],
                   base_path |-> parsed[3], credential |-> "connection_string"]
        ELSE [tag |-> "client", account_url |-> parsed[1], container_name |-> parsed[2],
              base_path |-> parsed[3], credential |-> cfg.connection_method]

\* destination paths: well formed with and without TLS, without a scheme,
\* without a base path, and without the final slash
DestinationPaths ==
    {<<"h", "t", "t", "p", ":", "/", "/", "h", "/", "c", "/">> \o base_path,
     <<"h", "t", "t", "p", "s", ":", "/", "/", "h", "/", "c", "/">> \o base_path,
     <<"h", "/", "c", "/">> \o base_path,
     <<"h", "t", "t", "p", ":", "/", "/", "h", "/", "c", "/">>,
     <<"h", "t", "t", "p", ":", "/", "/", "h", "/", "c", "/", "b">>}

\* connection strings: absent, empty, one key=value setting, no setting at all
ConnectionStrings == {None, <<>>, <<"k", "=", "v">>, <<"k">>}

\* connection_method values, the last outside the Literal
ConnectionMethods == {"default", "managed_identity", "sas"}

\* AzureBlobConfig(...) then AzureBlobBackend(config, general_config): __init__
\* stores the configuration and touches nothing else; a ValidationError leaves
\* no backend
construct_backend(destination_path, connection_string, connection_method) ==
    /\ config = NoConfig
    /\ config' = AzureBlobConfig(destination_path, connection_string, connection_method)
    /\ UNCHANGED <<backend, allow_overwrite, store, project_decision_func, in_flight>>

\* the record of one call on the constructed backend: io tells whether the
\* container client was handed to the operation
ConfigCall(operation, client, result) ==
    [operation |-> operation, io |-> client.tag = "client", result |-> result]

\* backend.upload_file(...) on the constructed backend: the container client is
\* opened from self.config first
config_upload_file(project_name, version, filename, file_content) ==
    /\ config.tag = "AzureBlobConfig"
    /\ Len(in_flight) < MaxCalls
    /\ LET client == azure_blob_container_client(config)
           out == AzureBlobBackend_upload_file(store, allow_overwrite, project_name,
                                               version, filename, file_content, None)
       IN  IF client.tag = "raise"
           THEN /\ store' = store
                /\ in_flight' = Append(in_flight, ConfigCall("upload_file", client, client))
           ELSE /\ store' = out.store
                /\ in_flight' = Append(in_flight, ConfigCall("upload_file", client, out.result))
    /\ UNCHANGED <<backend, allow_overwrite, project_decision_func, config>>

\* backend.get_file_contents(...) on the constructed backend
config_get_file_contents(project_name, version, filename) ==
    /\ config.tag = "AzureBlobConfig"
    /\ Len(in_flight) < MaxCalls
    /\ LET client == azure_blob_container_client(config)
           out == AzureBlobBackend_get_file_contents(store, project_name, version, filename)
       IN  IF client.tag = "raise"
           THEN /\ store' = store
                /\ in_flight' = Append(in_flight, ConfigCall("get_file_contents", client, client))
           ELSE /\ store' = out.store
                /\ in_flight' = Append(in_flight, ConfigCall("get_file_contents", client, out.result))
    /\ UNCHANGED <<backend, allow_overwrite, project_decision_func, config>>

\* before any configuration is drawn: the object-storage backend is chosen
\* and the container is empty
InitConfig ==
    /\ backend = "azure_blob"
    /\ allow_overwrite \in BOOLEAN
    /\ project_decision_func = project_decision_noop
    /\ in_flight = NoCalls
    /\ config = NoConfig
    /\ store = [x \in {} |-> None]

NextConfig ==
    \/ \E d \in DestinationPaths, s \in ConnectionStrings, m \in ConnectionMethods :
          construct_backend(d, s, m)
    \/ \E p \in ExternalNames, v \in Versions, f \in Filenames, c \in Contents :
          config_upload_file(p, v, f, c)
    \/ \E p \in ExternalNames, v \in Versions, f \in Filenames :
          config_get_file_contents(p, v, f)

SpecConfig == InitConfig /\ [][NextConfig]_vars

----------------------------------------------------------------------------
(* The two backends side by side: a filesystem backend and an               *)
(* object-storage backend with the same overwrite policy, both empty at     *)
(* first, receive the same calls with the same arguments.  Here `store` is  *)
(* the pair of their stores and a call's outcome the pair of its outcomes.  *)

InitPair ==
    /\ backend = "pair"
    /\ allow_overwrite \in BOOLEAN
    /\ project_decision_func = project_decision_noop
    /\ in_flight = NoCalls
    /\ config = NoConfig
    /\ store \in {[localfs |-> [root_exists |-> r, dirs |-> {}, files |-> [x \in {} |-> None]],
                   azure_blob |-> [x \in {} |-> None]] : r \in BOOLEAN}

Pair(localfs_outcome, azure_blob_outcome) ==
    [localfs |-> localfs_outcome, azure_blob |-> azure_blob_outcome]

\* the stores a pair of outcomes leaves
PairStore(out) == [localfs |-> out.localfs.store, azure_blob |-> out.azure_blob.store]

Pair_list_projects(st) ==
    Pair(LocalFSBackend_list_projects(st.localfs), AzureBlobBackend_list_projects(st.azure_blob))

Pair_list_project_versions(st, project_name) ==
    Pair(LocalFSBackend_list_project_versions(st.localfs, project_name),
         AzureBlobBackend_list_project_versions(st.azure_blob, project_name))

Pair_list_files_for_project(st, project_name) ==
    Pair(LocalFSBackend_list_files_for_project(st.localfs, project_name),
         AzureBlobBackend_list_files_for_project(st.azure_blob, project_name))

Pair_get_file_contents(st, project_name, version, filename) ==
    Pair(LocalFSBackend_get_file_contents(st.localfs, project_name, version, filename),
         AzureBlobBackend_get_file_contents(st.azure_blob, project_name, version, filename))

Pair_upload_file(st, project_name, version, filename, file_content, sha256_digest) ==
    Pair(LocalFSBackend_upload_file(st.localfs, allow_overwrite, project_name, version,
                                    filename, file_content, sha256_digest),
         AzureBlobBackend_upload_file(st.azure_blob, allow_overwrite, project_name, version,
                                      filename, file_content, sha256_digest))

Pair_delete_project_version(st, project_name, version) ==
    Pair(LocalFSBackend_delete_project_version(st.localfs, project_name, version),
         AzureBlobBackend_delete_project_version(st.azure_blob, project_name, version))

Pair_delete_project_version_file(st, project_name, version, filename) ==
    Pair(LocalFSBackend_delete_project_version_file(st.localfs, project_name, version, filename),
         AzureBlobBackend_delete_project_version_file(st.azure_blob, project_name, version, filename))

pair_list_projects ==
    /\ store' = PairStore(Pair_list_projects(store))
    /\ UNCHANGED <<backend, allow_overwrite, project_decision_func, in_flight, config>>

pair_list_project_versions(project_name) ==
    /\ store' = PairStore(Pair_list_project_versions(store, project_name))
    /\ UNCHANGED <<backend, allow_overwrite, project_decision_func, in_flight, config>>

pair_list_files_for_project(project_name) ==
    /\ store' = PairStore(Pair_list_files_for_project(store, project_name))
    /\ UNCHANGED <<backend, allow_overwrite, project_decision_func, in_flight, config>>

pair_get_file_contents(project_name, version, filename) ==
    /\ store' = PairStore(Pair_get_file_contents(store, project_name, version, filename))
    /\ UNCHANGED <<backend, allow_overwrite, project_decision_func, in_flight, config>>

\* the object-storage store, one blob per artifact, holds at most MaxFiles
pair_upload_file(project_name, version, filename, file_content, sha256_digest) ==
    LET out == Pair_upload_file(store, project_name, version, filename, file_content, sha256_digest)
    IN  /\ Cardinality(DOMAIN out.azure_blob.store) <= MaxFiles
        /\ store' = PairStore(out)
        /\ UNCHANGED <<backend, allow_overwrite, project_decision_func, in_flight, config>>

pair_delete_project_version(project_name, version) ==
    /\ store' = PairStore(Pair_delete_project_version(store, project_name, version))
    /\ UNCHANGED <<backend, allow_overwrite, project_decision_func, in_flight, config>>

pair_delete_project_version_file(project_name, version, filename) ==
    /\ store' = PairStore(Pair_delete_project_version_file(store, project_name, version, filename))
    /\ UNCHANGED <<backend, allow_overwrite, project_decision_func, in_flight, config>>

NextPair ==
    \/ pair_list_projects
    \/ \E p \in ProjectNames : pair_list_project_versions(p)
    \/ \E p \in ProjectNames : pair_list_files_for_project(p)
    \/ \E p \in ProjectNames, v \in Versions, f \in Filenames : pair_get_file_contents(p, v, f)
    \/ \E p \in UploadNames, v \in Versions, f \in Filenames, c \in Contents, d \in {None, WrongDigest} :
           pair_upload_file(p, v, f, c, d)
    \/ \E p \in ProjectNames, v \in Versions : pair_delete_project_version(p, v)
    \/ \E p \in ProjectNames, v \in Versions, f \in Filenames :
           pair_delete_project_version_file(p, v, f)

\* the same sequence of calls on both backends
SpecPair == InitPair /\ [][NextPair]_vars

----------------------------------------------------------------------------
(* The HTTP router (pep503_router) in front of the backend.  A request is   *)
(* its method, its URL path as the sequence of its segments (the mount      *)
(* prefix followed by the route), the route's own segments, from which the  *)
(* framework binds the path parameters, the multipart form and the JSON     *)
(* body.  An endpoint's outcome is the store it leaves, the status code of  *)
(* its response, the response body and the trace of what it evaluated: the  *)
(* RBAC decisions and the backend calls, in order.  The RBAC decision       *)
(* function is supplied by the application; `decision` is the value it      *)
(* returns for the request at hand.                                         *)

SimpleSeg == <<"s", "i", "m", "p", "l", "e">>

ArtifactsSeg == <<"a", "r", "t", "i", "f", "a", "c", "t", "s">>

UploadSeg == <<"u", "p", "l", "o", "a", "d">>

DeleteSeg == <<"d", "e", "l", "e", "t", "e">>

ProjectsSeg == <<"p", "r", "o", "j", "e", "c", "t", "s">>

VersionsSeg == <<"v", "e", "r", "s", "i", "o", "n", "s">>

DeleteVersionsSeg == <<"d", "e", "l", "e", "t", "e", "-", "v", "e", "r", "s", "i", "o", "n", "s">>

\* form data of the upload: name, version, the content part's file name and
\* bytes, sha256_digest (None when the form carries none)
UploadFormData(name, version, filename, file_content, sha256_digest) ==
    [name |-> name, version |-> version, filename |-> filename,
     file_content |-> file_content, sha256_digest |-> sha256_digest]

\* a request without form data
NoForm == UploadFormData(None, None, None, None, None)

Request(method, prefix, route, form, json) ==
    [method |-> method, path |-> prefix \o route, route |-> route,
     form |-> form, json |-> json]

\* r'.*/simple/?$': the path ends with the segment 'simple'
SIMPLE_ROOT_PATTERN_match(path) ==
    Len(path) >= 1 /\ path[Len(path)] = SimpleSeg

\* r'.*/upload/?$': the path ends with the segment 'upload'
UPLOAD_PATTERN_match(path) ==
    Len(path) >= 1 /\ path[Len(path)] = UploadSeg

\* r'.*/simple/([^/]+)/?$': the last segment, when the one before it is
\* 'simple'; None when the path does not match
SIMPLE_PROJECT_PATTERN_group(path) ==
    IF Len(path) >= 2 /\ path[Len(path) - 1] = SimpleSeg /\ path[Len(path)] # <<>>
    THEN path[Len(path)]
    ELSE None

\* r'.*/<seg>/([^/]+)/.+': the segment after the last occurrence of seg that
\* has a segment after it and something after that ('.*' is greedy); None
\* when the path does not match
SegmentAfterLast(seg, path) ==
    LET found == {i \in 1..(Len(path) - 2) : path[i] = seg /\ path[i + 1] # <<>>}
    IN  IF found = {} THEN None
        ELSE path[(CHOOSE i \in found : \A j \in found : j <= i) + 1]

ARTIFACTS_PATTERN_group(path) == SegmentAfterLast(ArtifactsSeg, path)

DELETE_PATTERN_group(path) == SegmentAfterLast(DeleteSeg, path)

\* form.get('name'); str(name) if name else None
get_project_name_from_upload_form(request) ==
    IF Truthy(request.form.name) THEN request.form.name ELSE None

Return(value) == [tag |-> "return", value |-> value]

infer_project_name_from_request(request) ==
    IF request.method = "GET" /\ SIMPLE_ROOT_PATTERN_match(request.path)
    THEN Return(None)
    ELSE IF request.method = "POST" /\ UPLOAD_PATTERN_match(request.path)
    THEN Return(get_project_name_from_upload_form(request))
    ELSE IF request.method = "GET" /\ SIMPLE_PROJECT_PATTERN_group(request.path) # None
    THEN Return(SIMPLE_PROJECT_PATTERN_group(request.path))
    ELSE IF request.method = "GET" /\ ARTIFACTS_PATTERN_group(request.path) # None
    THEN Return(ARTIFACTS_PATTERN_group(request.path))
    ELSE IF request.method = "DELETE" /\ DELETE_PATTERN_group(request.path) # None
    THEN Return(DELETE_PATTERN_group(request.path))
    ELSE Raise("ValueError")

\* what the trace records beside the RBAC decisions
BackendCall(operation, arguments) ==
    [event |-> "backend", operation |-> operation, arguments |-> arguments]

HTTPException(status_code, detail) ==
    [tag |-> "raise", exc |-> "HTTPException", status_code |-> status_code, detail |-> detail]

PackageNotAuthorizedException(rbac_input) ==
    HTTPException(403, <<rbac_input.operation_type, rbac_input.project_name>>)

\* check_and_raise_project_rbac raising nothing on a false decision
check_and_raise_project_rbac_permissive(rbac_input, decision) ==
    [trace |-> <<rbac_input>>, result |-> ReturnNone]

\* the decision function is awaited with rbac_input and returns `decision`
check_and_raise_project_rbac(rbac_input, decision) ==
    [trace |-> <<rbac_input>>,
     result |-> IF ~decision THEN PackageNotAuthorizedException(rbac_input) ELSE ReturnNone]

\* _PackageRbacDependency.__call__: the project name is inferred first
PackageRbacDependency_call(operation_type, request, decision) ==
    LET inferred == infer_project_name_from_request(request)
    IN  IF inferred.tag = "raise"
        THEN [trace |-> <<>>, result |-> inferred]
        ELSE check_and_raise_project_rbac(
                 ProjectRBACDecisionInput(operation_type, inferred.value), decision)

Response(st, status_code, body, trace) ==
    [store |-> st, status_code |-> status_code, body |-> body, trace |-> trace]

\* an exception leaving an endpoint or its dependency: an HTTPException is
\* answered with its status code, any other with 500.  A detail is the
\* f-string as the sequence of its literal and interpolated parts.
ExceptionResponse(st, exception, trace) ==
    IF exception.exc = "HTTPException"
    THEN Response(st, exception.status_code, exception.detail, trace)
    ELSE Response(st, 500, exception.exc, trace)

get_simple_index(st) ==
    LET out == Backend_list_projects(st)
        trace == <<BackendCall("list_projects", <<>>)>>
    IN  IF out.result.tag = "raise" THEN ExceptionResponse(out.store, out.result, trace)
        ELSE Response(out.store, 200, out.result.value, trace)

handle_project_not_found(st, project_name, fallback_enabled, trace) ==
    IF fallback_enabled
    THEN Response(st, 307, project_name, trace)
    ELSE ExceptionResponse(st, HTTPException(404, <<"Project ", project_name, " not found.">>), trace)

get_project_simple_index(st, project_name, fallback_enabled) ==
    LET out == Backend_list_files_for_project(st, project_name)
        trace == <<BackendCall("list_files_for_project", <<project_name>>)>>
    IN  IF out.result.tag = "raise" THEN ExceptionResponse(out.store, out.result, trace)
        ELSE IF out.result.value = <<>>
        THEN handle_project_not_found(out.store, project_name, fallback_enabled, trace)
        ELSE Response(out.store, 200,
                      [i \in DOMAIN out.result.value |->
                          <<out.result.value[i].version, out.result.value[i].filename>>],
                      trace)

get_project_artifact(st, project_name, version, filename) ==
    LET out == Backend_get_file_contents(st, project_name, version, filename)
        trace == <<BackendCall("get_file_contents", <<project_name, version, filename>>)>>
    IN  IF out.result.tag = "raise" THEN ExceptionResponse(out.store, out.result, trace)
        ELSE IF out.result.tag = "None"
        THEN ExceptionResponse(out.store,
                 HTTPException(404, <<"File ", filename, " for project ", project_name,
                                      " not found.">>), trace)
        ELSE Response(out.store, 200, out.result.content, trace)

\* upload_project_file answering 201 when the backend reports the conflict
upload_project_file_swallowing_conflict(st, body) ==
    IF ~Truthy(body.filename)
    THEN ExceptionResponse(st, HTTPException(400, <<"Filename is required.">>), <<>>)
    ELSE LET out == Backend_upload_file(st, body.name, body.version, body.filename,
                                        body.file_content, body.sha256_digest)
             trace == <<BackendCall("upload_file",
                            <<body.name, body.version, body.filename,
                              body.file_content, body.sha256_digest>>)>>
         IN  IF out.result.tag = "raise" /\ out.result.exc # "ProjectFileExistsError"
             THEN ExceptionResponse(out.store, out.result, trace)
             ELSE Response(out.store, 201, None, trace)

upload_project_file(st, body) ==
    IF ~Truthy(body.filename)
    THEN ExceptionResponse(st, HTTPException(400, <<"Filename is required.">>), <<>>)
    ELSE LET out == Backend_upload_file(st, body.name, body.version, body.filename,
                                        body.file_content, body.sha256_digest)
             trace == <<BackendCall("upload_file",
                            <<body.name, body.version, body.filename,
                              body.file_content, body.sha256_digest>>)>>
         IN  IF out.result.tag = "raise" /\ out.result.exc = "ProjectFileExistsError"
             THEN ExceptionResponse(out.store,
                      HTTPException(409, <<"File ", body.filename, " for project ", body.name,
                                      " already exists.">>), trace)
             ELSE IF out.result.tag = "raise"
             THEN ExceptionResponse(out.store, out.result, trace)
             ELSE Response(out.store, 201, None, trace)

router_list_projects(st) ==
    LET out == Backend_list_projects(st)
        trace == <<BackendCall("list_projects", <<>>)>>
    IN  IF out.result.tag = "raise" THEN ExceptionResponse(out.store, out.result, trace)
        ELSE Response(out.store, 200, out.result.value, trace)

router_list_project_versions(st, project_name) ==
    LET out == Backend_list_project_versions(st, project_name)
        trace == <<BackendCall("list_project_versions", <<project_name>>)>>
    IN  IF out.result.tag = "raise" THEN ExceptionResponse(out.store, out.result, trace)
        ELSE IF out.result.value = <<>>
        THEN ExceptionResponse(out.store,
                 HTTPException(404, <<"Project ", project_name, " not found.">>), trace)
        ELSE Response(out.store, 200, out.result.value, trace)

\* the loop of delete_project_versions over versions, from the store st with
\* the versions deleted so far and the calls made so far
RECURSIVE delete_project_versions_loop(_, _, _, _, _)
delete_project_versions_loop(st, project_name, versions, deleted_versions, trace) ==
    IF versions = <<>> THEN Response(st, 200, deleted_versions, trace)
    ELSE LET version == Head(versions)
             out == Backend_delete_project_version(st, project_name, version)
             called == Append(trace, BackendCall("delete_project_version",
                                                 <<project_name, version>>))
         IN  IF out.result.tag = "raise" THEN ExceptionResponse(out.store, out.result, called)
             ELSE delete_project_versions_loop(
                      out.store, project_name, Tail(versions),
                      IF out.result.value THEN Append(deleted_versions, version)
                      ELSE deleted_versions,
                      called)

delete_project_versions(st, project_name, versions) ==
    delete_project_versions_loop(st, project_name, versions, <<>>, <<>>)

\* dependencies=[package_rbac_dependency(operation_type)]: the dependency
\* is resolved before the endpoint function is called
OperationType(request) ==
    IF request.method = "POST" /\ request.route = <<UploadSeg>> THEN "write"
    ELSE IF request.method = "POST" THEN "delete"
    ELSE "read"

\* the endpoint function the request is routed to
Endpoint(st, request, fallback_enabled) ==
    LET route == request.route
    IN  IF request.method = "GET" /\ route = <<SimpleSeg>>
        THEN get_simple_index(st)
        ELSE IF request.method = "GET" /\ Len(route) = 2 /\ route[1] = SimpleSeg
        THEN get_project_simple_index(st, route[2], fallback_enabled)
        ELSE IF request.method = "GET" /\ Len(route) = 4 /\ route[1] = ArtifactsSeg
        THEN get_project_artifact(st, route[2], route[3], route[4])
        ELSE IF request.method = "POST" /\ route = <<UploadSeg>>
        THEN upload_project_file(st, request.form)
        ELSE IF request.method = "GET" /\ route = <<ProjectsSeg>>
        THEN router_list_projects(st)
        ELSE IF request.method = "GET" /\ Len(route) = 3 /\ route[1] = ProjectsSeg
                /\ route[3] = VersionsSeg
        THEN router_list_project_versions(st, route[2])
        ELSE delete_project_versions(st, route[2], request.json)

\* one request served by pep503_router
pep503_router(st, request, decision, fallback_enabled) ==
    LET dependency == PackageRbacDependency_call(OperationType(request), request, decision)
    IN  IF dependency.result.tag = "raise"
        THEN ExceptionResponse(st, dependency.result, dependency.trace)
        ELSE LET response == Endpoint(st, request, fallback_enabled)
             IN  [response EXCEPT !.trace = dependency.trace \o @]

\* the prefix the router is mounted under, '/x', as include_router(...,
\* prefix=...) fixes it for an application
MountPrefix == <<<<"x">>>>

\* the mount prefixes the properties consider: none, and '/x'
Prefixes == {<<>>, MountPrefix}

\* the requests of the model, one constructor per route
GET_simple(prefix) == Request("GET", prefix, <<SimpleSeg>>, NoForm, <<>>)

GET_simple_project(prefix, project_name) ==
    Request("GET", prefix, <<SimpleSeg, project_name>>, NoForm, <<>>)

GET_artifacts(prefix, project_name, version, filename) ==
    Request("GET", prefix, <<ArtifactsSeg, project_name, version, filename>>, NoForm, <<>>)

POST_upload(prefix, form) == Request("POST", prefix, <<UploadSeg>>, form, <<>>)

GET_projects(prefix) == Request("GET", prefix, <<ProjectsSeg>>, NoForm, <<>>)

GET_project_versions(prefix, project_name) ==
    Request("GET", prefix, <<ProjectsSeg, project_name, VersionsSeg>>, NoForm, <<>>)

POST_delete_versions(prefix, project_name, versions) ==
    Request("POST", prefix, <<ProjectsSeg, project_name, DeleteVersionsSeg>>, NoForm, versions)

\* the version lists of a delete-versions body
VersionLists == {<<>>} \cup {<<v>> : v \in Versions} \cup {<<v, w>> : v, w \in Versions}

\* the upload forms of the model; the content part's file name may be empty
UploadForms ==
    {UploadFormData(p, v, f, c, d) :
        p \in UploadNames, v \in Versions, f \in Filenames \cup {<<>>}, c \in Contents,
        d \in {None, WrongDigest}}

\* a decision function that permits the operations in `operations` on the
\* projects in `projects` (None: a request that names no project)
DecisionFunc(operations, projects) ==
    [rbac_input \in RbacInputs |->
        rbac_input.operation_type \in operations /\ rbac_input.project_name \in projects]

\* the decision functions an application sets
DecisionFuncs ==
    {DecisionFunc(operations, projects) :
        operations \in SUBSET OperationTypes,
        projects \in {ProjectNames \cup {None}, {None, <<"r">>}, {<<"r">>}}}

\* decision = await get_project_rbac_decision_func()(rbac_input)
project_rbac_decision(rbac_input) == project_decision_func[rbac_input]

\* the value the decision function in force returns for a request; no
\* decision is asked for when the project name cannot be inferred
RequestDecision(request) ==
    LET inferred == infer_project_name_from_request(request)
    IN  IF inferred.tag = "raise" THEN FALSE
        ELSE project_rbac_decision(
                 ProjectRBACDecisionInput(OperationType(request), inferred.value))

\* the router as a state machine: one action per endpoint, each the whole
\* request: dependency, with the decision function in force, and endpoint
\* function
http_get_simple_index(prefix) ==
    /\ store' = pep503_router(store, GET_simple(prefix),
                              RequestDecision(GET_simple(prefix)), FALSE).store
    /\ UNCHANGED <<backend, allow_overwrite, project_decision_func, in_flight, config>>

http_get_project_simple_index(prefix, project_name, fallback_enabled) ==
    /\ store' = pep503_router(store, GET_simple_project(prefix, project_name),
                              RequestDecision(GET_simple_project(prefix, project_name)),
                              fallback_enabled).store
    /\ UNCHANGED <<backend, allow_overwrite, project_decision_func, in_flight, config>>

http_get_project_artifact(prefix, project_name, version, filename) ==
    /\ store' = pep503_router(store, GET_artifacts(prefix, project_name, version, filename),
                              RequestDecision(GET_artifacts(prefix, project_name, version,
                                                            filename)),
                              FALSE).store
    /\ UNCHANGED <<backend, allow_overwrite, project_decision_func, in_flight, config>>

\* the store holds at most MaxFiles artifacts
http_upload_project_file(prefix, form) ==
    LET response == pep503_router(store, POST_upload(prefix, form),
                                  RequestDecision(POST_upload(prefix, form)), FALSE)
    IN  /\ StoredCount(response.store) <= MaxFiles
        /\ store' = response.store
        /\ UNCHANGED <<backend, allow_overwrite, project_decision_func, in_flight, config>>

http_list_projects(prefix) ==
    /\ store' = pep503_router(store, GET_projects(prefix),
                              RequestDecision(GET_projects(prefix)), FALSE).store
    /\ UNCHANGED <<backend, allow_overwrite, project_decision_func, in_flight, config>>

http_list_project_versions(prefix, project_name) ==
    /\ store' = pep503_router(store, GET_project_versions(prefix, project_name),
                              RequestDecision(GET_project_versions(prefix, project_name)),
                              FALSE).store
    /\ UNCHANGED <<backend, allow_overwrite, project_decision_func, in_flight, config>>

http_delete_project_versions(prefix, project_name, versions) ==
    /\ store' = pep503_router(store, POST_delete_versions(prefix, project_name, versions),
                              RequestDecision(POST_delete_versions(prefix, project_name,
                                                                   versions)),
                              FALSE).store
    /\ UNCHANGED <<backend, allow_overwrite, project_decision_func, in_flight, config>>

NextRouter ==
    \/ http_get_simple_index(MountPrefix)
    \/ \E p \in ProjectNames, fb \in BOOLEAN : http_get_project_simple_index(MountPrefix, p, fb)
    \/ \E p \in ProjectNames, v \in Versions, f \in Filenames :
           http_get_project_artifact(MountPrefix, p, v, f)
    \/ \E form \in UploadForms : http_upload_project_file(MountPrefix, form)
    \/ http_list_projects(MountPrefix)
    \/ \E p \in ProjectNames : http_list_project_versions(MountPrefix, p)
    \/ \E p \in ProjectNames, vs \in VersionLists :
           http_delete_project_versions(MountPrefix, p, vs)

\* the decision function the application has set before it serves: the
\* initial one, one that denies everything, and one that permits reading and
\* writing project 'r' only
InitRouter ==
    /\ backend \in {"localfs", "azure_blob"}
    /\ allow_overwrite \in BOOLEAN
    /\ project_decision_func \in
           {project_decision_noop, DecisionFunc({}, {}),
            DecisionFunc({"read", "write"}, {<<"r">>})}
    /\ in_flight = NoCalls
    /\ config = NoConfig
    /\ store \in IF backend = "localfs"
                 THEN {[root_exists |-> r, dirs |-> {}, files |-> [x \in {} |-> None]] : r \in BOOLEAN}
                 ELSE {[x \in {} |-> None]}

\* the backend reached through the router only
SpecRouter == InitRouter /\ [][NextRouter]_vars

----------------------------------------------------------------------------
(* The RBAC decision function as process-wide state: set, reset, and the    *)
(* checks made with the function in force.                                  *)

set_project_rbac_decision_func(func) ==
    /\ project_decision_func' = func
    /\ UNCHANGED <<backend, allow_overwrite, store, in_flight, config>>

reset_project_rbac_decision_func ==
    /\ project_decision_func' = project_decision_noop
    /\ UNCHANGED <<backend, allow_overwrite, store, in_flight, config>>

\* one check: it raises or returns, and changes nothing
check_project_rbac(rbac_input) ==
    /\ check_and_raise_project_rbac(rbac_input, project_rbac_decision(rbac_input)).result.tag
           \in {"None", "raise"}
    /\ UNCHANGED vars

NextRbac ==
    \/ \E func \in DecisionFuncs : set_project_rbac_decision_func(func)
    \/ reset_project_rbac_decision_func
    \/ \E rbac_input \in RbacInputs : check_project_rbac(rbac_input)

SpecRbac == Init /\ [][NextRbac]_vars

----------------------------------------------------------------------------
(* What the store holds for an artifact, read where the backend keeps it:   *)
(* the file root_path/normalized project/version/filename with its sidecar *)
(* filename.sha256, or the blob base_path+project/version/filename with    *)
(* its metadata key sha256.                                                *)

\* every entry of the store, by its path or blob name
all_entries(st) == IF backend = "localfs" THEN st.dirs \cup DOMAIN st.files ELSE DOMAIN st

\* the entries kept under a project
project_entries(st, project_name) ==
    IF backend = "localfs"
    THEN {x \in all_entries(st) : x[1] = pypi_normalize(project_name)}
    ELSE list_blobs(st, base_path \o project_name \o Slash)

\* the entries kept under a version of a project
version_entries(st, project_name, version) ==
    IF backend = "localfs"
    THEN {x \in all_entries(st) : Len(x) >= 2 /\ x[1] = pypi_normalize(project_name) /\ x[2] = version}
    ELSE list_blobs(st, base_path \o project_name \o Slash \o version \o Slash)

\* the bytes stored for an artifact, None when there are none
stored_content(st, project_name, version, filename) ==
    LET file_path == <<pypi_normalize(project_name), version, filename>>
        blob_name == base_path \o project_name \o Slash \o version \o Slash \o filename
    IN  IF backend = "localfs"
        THEN IF file_path \in DOMAIN st.files THEN st.files[file_path] ELSE None
        ELSE IF blob_name \in DOMAIN st THEN st[blob_name].data ELSE None

\* the digest stored for an artifact, None when there is none
stored_digest(st, project_name, version, filename) ==
    LET sha256_path == <<pypi_normalize(project_name), version, filename \o Sha256Suffix>>
        blob_name == base_path \o project_name \o Slash \o version \o Slash \o filename
    IN  IF backend = "localfs"
        THEN IF sha256_path \in DOMAIN st.files THEN st.files[sha256_path] ELSE None
        ELSE IF blob_name \in DOMAIN st THEN metadata_get_sha256(st[blob_name].metadata) ELSE None

artifact_exists(st, project_name, version, filename) ==
    stored_content(st, project_name, version, filename) # None

\* the store entries that make up one artifact: its content and its digest companion
artifact_entries(project_name, version, filename) ==
    IF backend = "localfs"
    THEN {<<pypi_normalize(project_name), version, filename>>,
          <<pypi_normalize(project_name), version, filename \o Sha256Suffix>>}
    ELSE {base_path \o project_name \o Slash \o version \o Slash \o filename}

\* what the store keeps in one entry: a file's bytes, a blob's data and metadata
entry_value(st, k) ==
    IF backend = "localfs"
    THEN IF k \in DOMAIN st.files THEN st.files[k] ELSE <<"dir">>
    ELSE st[k]

----------------------------------------------------------------------------
(* The claims.  A claim about what a call does is stated over the call's    *)
(* outcome in every reachable store, for every argument of the model.      *)

\* C1: a successful upload followed directly by get_file_contents of the same
\* (project, version, filename) returns the uploaded bytes and the SHA-256 of
\* those bytes, whatever sha256_digest the upload passed.
RoundTrip ==
    \A p \in UploadNames, v \in Versions, f \in Filenames, c \in Contents :
        \A d \in Digests(c) :
            LET up == Backend_upload_file(store, p, v, f, c, d)
            IN  up.result = ReturnNone =>
                    Backend_get_file_contents(up.store, p, v, f).result
                        = FileContents(f, c, Sha256(c))

\* C2: after any sequence of upload_file, get_file_contents,
\* delete_project_version and delete_project_version_file calls, the digest
\* persisted for every existing artifact is the SHA-256 of the bytes stored
\* for it.
DigestIntegrity ==
    \A p \in ProjectNames, v \in Versions, f \in Filenames :
        artifact_exists(store, p, v, f) =>
            stored_digest(store, p, v, f) = Sha256(stored_content(store, p, v, f))

\* C3: get_file_contents of an artifact whose content exists returns a
\* FileContents with a digest, and on return the store holds a digest for the
\* artifact, even when it held none before.
DigestAvailability ==
    \A p \in ProjectNames, v \in Versions, f \in Filenames :
        artifact_exists(store, p, v, f) =>
            LET got == Backend_get_file_contents(store, p, v, f)
            IN  /\ got.result.tag = "FileContents"
                /\ Truthy(got.result.sha256_digest)
                /\ stored_digest(got.store, p, v, f) # None

\* an artifact written out of band got its digest from a get_file_contents
DigestAvailabilityWitness ==
    \E p \in ProjectNames, v \in Versions, f \in Filenames :
        /\ stored_content(store, p, v, f) = ExternalContent
        /\ stored_digest(store, p, v, f) = Sha256(ExternalContent)

\* C4: for an existing artifact with no stored digest, get_file_contents
\* returns the SHA-256 of the content and persists it; a second
\* get_file_contents returns the same digest and writes nothing.
IdempotentSelfHeal ==
    \A p \in ProjectNames, v \in Versions, f \in Filenames :
        (artifact_exists(store, p, v, f) /\ stored_digest(store, p, v, f) = None) =>
            LET first == Backend_get_file_contents(store, p, v, f)
                second == Backend_get_file_contents(first.store, p, v, f)
                digest == Sha256(stored_content(store, p, v, f))
            IN  /\ first.result = FileContents(f, stored_content(store, p, v, f), digest)
                /\ stored_digest(first.store, p, v, f) = digest
                /\ stored_content(first.store, p, v, f) = stored_content(store, p, v, f)
                /\ second.result = first.result
                /\ second.writes = 0
                /\ second.store = first.store

\* an artifact written out of band has no digest yet, and the two reads of it
\* compute the digest once
IdempotentSelfHealWitness ==
    \E p \in ProjectNames, v \in Versions, f \in Filenames :
        /\ stored_content(store, p, v, f) = ExternalContent
        /\ stored_digest(store, p, v, f) = None
        /\ LET first == Backend_get_file_contents(store, p, v, f)
           IN  /\ first.writes = 1
               /\ Backend_get_file_contents(first.store, p, v, f).writes = 0

\* C5: with allow_overwrite false, upload_file to an existing (project,
\* version, filename) raises ProjectFileExistsError with that filename and
\* project name, and the store is as it was before the call.
OverwriteDisabled ==
    \A p \in ProjectNames, v \in Versions, f \in Filenames, c \in Contents :
        \A d \in Digests(c) :
            (~allow_overwrite /\ artifact_exists(store, p, v, f)) =>
                LET up == Backend_upload_file(store, p, v, f, c, d)
                IN  /\ up.result = ProjectFileExistsError(f, p)
                    /\ stored_content(up.store, p, v, f) = stored_content(store, p, v, f)
                    /\ stored_digest(up.store, p, v, f) = stored_digest(store, p, v, f)
                    /\ up.store = store

\* an upload of other bytes to an existing artifact is refused
OverwriteDisabledWitness ==
    /\ ~allow_overwrite
    /\ \E p \in ProjectNames, v \in Versions, f \in Filenames, c \in Contents :
           /\ artifact_exists(store, p, v, f)
           /\ stored_content(store, p, v, f) # c
           /\ Backend_upload_file(store, p, v, f, c, None).result = ProjectFileExistsError(f, p)

\* C6: with allow_overwrite true, upload_file to an existing (project,
\* version, filename) succeeds; afterwards get_file_contents returns the
\* second upload's content and digest, and the store holds nothing else for
\* the artifact.
OverwriteEnabled ==
    \A p \in ProjectNames, v \in Versions, f \in Filenames, c \in Contents :
        \A d \in Digests(c) :
            (allow_overwrite /\ artifact_exists(store, p, v, f)) =>
                LET up == Backend_upload_file(store, p, v, f, c, d)
                    digest == IF d = None THEN Sha256(c) ELSE d
                IN  /\ up.result = ReturnNone
                    /\ Backend_get_file_contents(up.store, p, v, f).result
                           = FileContents(f, c, digest)
                    /\ stored_content(up.store, p, v, f) = c
                    /\ stored_digest(up.store, p, v, f) = digest

\* an upload of other bytes to an existing artifact replaces content and digest
OverwriteEnabledWitness ==
    /\ allow_overwrite
    /\ \E p \in ProjectNames, v \in Versions, f \in Filenames, c \in Contents :
           /\ artifact_exists(store, p, v, f)
           /\ stored_content(store, p, v, f) # c
           /\ stored_digest(store, p, v, f) # Sha256(c)
           /\ LET up == Backend_upload_file(store, p, v, f, c, None)
              IN  /\ up.result = ReturnNone
                  /\ stored_content(up.store, p, v, f) = c
                  /\ stored_digest(up.store, p, v, f) = Sha256(c)

\* C7: in every store, a freshly constructed backend's included, list_projects
\* returns [] when nothing is stored, list_project_versions and
\* list_files_for_project return [] for a project with nothing stored,
\* get_file_contents returns None for an artifact that does not exist,
\* delete_project_version and delete_project_version_file return False for a
\* target that does not exist, and none of them raises.
AbsenceIsNeverAFault ==
    /\ all_entries(store) = {} => Backend_list_projects(store).result = ReturnList(<<>>)
    /\ \A p \in ProjectNames :
           project_entries(store, p) = {} =>
               /\ Backend_list_project_versions(store, p).result = ReturnList(<<>>)
               /\ Backend_list_files_for_project(store, p).result = ReturnList(<<>>)
    /\ \A p \in ProjectNames, v \in Versions :
           version_entries(store, p, v) = {} =>
               Backend_delete_project_version(store, p, v).result = ReturnBool(FALSE)
    /\ \A p \in ProjectNames, v \in Versions, f \in Filenames :
           ~artifact_exists(store, p, v, f) =>
               /\ Backend_get_file_contents(store, p, v, f).result = ReturnNone
               /\ Backend_delete_project_version_file(store, p, v, f).result = ReturnBool(FALSE)

\* C8: delete_project_version of a version with at least one artifact returns
\* True; afterwards get_file_contents of every file of that version returns
\* None, and a repeated delete_project_version returns False.
DeleteVersion ==
    \A p \in ProjectNames, v \in Versions :
        (\E f \in Filenames : artifact_exists(store, p, v, f)) =>
            LET deleted == Backend_delete_project_version(store, p, v)
            IN  /\ deleted.result = ReturnBool(TRUE)
                /\ \A f \in Filenames :
                       Backend_get_file_contents(deleted.store, p, v, f).result = ReturnNone
                /\ Backend_delete_project_version(deleted.store, p, v).result = ReturnBool(FALSE)

\* a version holding two artifacts is deleted with both of them
DeleteVersionWitness ==
    \E p \in ProjectNames, v \in Versions :
        /\ \A f \in Filenames : artifact_exists(store, p, v, f)
        /\ LET deleted == Backend_delete_project_version(store, p, v)
           IN  /\ deleted.result = ReturnBool(TRUE)
               /\ \A f \in Filenames : ~artifact_exists(deleted.store, p, v, f)

ListingExclusions ==
    \A p \in ProjectNames :
        LET listed == Backend_list_files_for_project(store, p).result
        IN  /\ listed.tag = "list"
            /\ \A i \in 1..Len(listed.value) :
                   /\ ~EndsWith(listed.value[i].filename, Sha256Suffix)
                   /\ \/ EndsWith(listed.value[i].filename, WhlSuffix)
                      \/ EndsWith(listed.value[i].filename, TarGzSuffix)

\* C11: on both backends list_files_for_project returns its entries in
\* ascending order of the pair (version, filename), compared as a tuple of
\* strings.
ListFilesOrdering ==
    \A p \in ProjectNames :
        LET listed == Backend_list_files_for_project(store, p).result
        IN  /\ listed.tag = "list"
            /\ \A i \in 1..Len(listed.value), j \in 1..Len(listed.value) :
                   i < j => TupleLess(<<listed.value[i].version, listed.value[i].filename>>,
                                      <<listed.value[j].version, listed.value[j].filename>>)

\* a project name whose first character is a dot
HiddenName == <<".", "h">>

\* C12: list_projects returns every project of the store once, in ascending
\* order and with no dot-prefixed entry; list_project_versions returns every
\* version of the project once, in ascending order.  Stated for the store an
\* upload leaves, under any name.
NameListings ==
    \A p \in ProjectNames \cup {HiddenName}, v \in Versions, f \in Filenames, c \in Contents :
        LET up == Backend_upload_file(store, p, v, f, c, None)
            projects == Backend_list_projects(up.store).result
            versions == Backend_list_project_versions(up.store, p).result
            stored == {q \in ProjectNames \cup {HiddenName} :
                         \E w \in Versions, g \in Filenames : artifact_exists(up.store, q, w, g)}
        IN  up.result = ReturnNone =>
                /\ projects.tag = "list"
                /\ \A i \in 1..Len(projects.value), j \in 1..Len(projects.value) :
                       i < j => /\ StrLess(projects.value[i], projects.value[j])
                                /\ pypi_normalize(projects.value[i]) # pypi_normalize(projects.value[j])
                /\ \A i \in 1..Len(projects.value) : ~StartsWith(projects.value[i], <<".">>)
                /\ \A q \in stored \ {HiddenName} :
                       \E i \in 1..Len(projects.value) :
                           pypi_normalize(projects.value[i]) = pypi_normalize(q)
                /\ versions.tag = "list"
                /\ \A i \in 1..Len(versions.value), j \in 1..Len(versions.value) :
                       i < j => StrLess(versions.value[i], versions.value[j])
                /\ \A w \in Versions :
                       (\E g \in Filenames : artifact_exists(up.store, p, w, g)) =>
                           \E i \in 1..Len(versions.value) : versions.value[i] = w

\* C13: two project names with the same normalized form address the same
\* project on both backends: an artifact uploaded under one is returned by
\* get_file_contents, list_project_versions and list_files_for_project, and
\* removed by delete_project_version and delete_project_version_file, called
\* with the other.
ProjectNameEquivalence ==
    \A p \in ProjectNames, q \in ProjectNames, v \in Versions, c \in Contents :
        LET f == <<"a">> \o WhlSuffix
            up == Backend_upload_file(store, p, v, f, c, None)
            versions == Backend_list_project_versions(up.store, q).result
            files == Backend_list_files_for_project(up.store, q).result
        IN  (pypi_normalize(p) = pypi_normalize(q) /\ up.result = ReturnNone) =>
                /\ Backend_get_file_contents(up.store, q, v, f).result
                       = FileContents(f, c, Sha256(c))
                /\ versions.tag = "list"
                /\ \E i \in 1..Len(versions.value) : versions.value[i] = v
                /\ files.tag = "list"
                /\ \E i \in 1..Len(files.value) :
                       files.value[i].version = v /\ files.value[i].filename = f
                /\ Backend_delete_project_version(up.store, q, v).result = ReturnBool(TRUE)
                /\ Backend_delete_project_version_file(up.store, q, v, f).result = ReturnBool(TRUE)

\* C14: after any sequence of upload_file, delete_project_version_file and
\* delete_project_version calls, list_project_versions(project) contains a
\* version exactly when an artifact exists under (project, version), and
\* delete_project_version of a version with no artifact returns False.
VersionExistence ==
    \A p \in ProjectNames, v \in Versions :
        LET versions == Backend_list_project_versions(store, p).result
            has_artifact == \E f \in Filenames : artifact_exists(store, p, v, f)
        IN  /\ versions.tag = "list"
            /\ (\E i \in 1..Len(versions.value) : versions.value[i] = v) <=> has_artifact
            /\ ~has_artifact =>
                   Backend_delete_project_version(store, p, v).result = ReturnBool(FALSE)

\* C15: after any sequence of upload_file, delete_project_version_file and
\* delete_project_version calls, list_projects, when it returns, contains a
\* project exactly when the project has a version, that is an artifact.
ProjectExistence ==
    LET projects == Backend_list_projects(store).result
        has_artifact(q) == \E v \in Versions, f \in Filenames : artifact_exists(store, q, v, f)
    IN  projects.tag = "list" =>
            /\ \A i \in 1..Len(projects.value) : has_artifact(projects.value[i])
            /\ \A q \in ProjectNames :
                   has_artifact(q) =>
                       \E i \in 1..Len(projects.value) :
                           pypi_normalize(projects.value[i]) = pypi_normalize(q)

\* C16: an upload_file that fails, on a conflict or on a storage fault in any
\* of its I/O calls, leaves the stored content and the stored digest of its
\* target as they were; one that succeeds has written both.
UploadAllOrNothing ==
    \A p \in ProjectNames, v \in Versions, f \in Filenames, c \in Contents :
        /\ LET up == Backend_upload_file(store, p, v, f, c, None)
           IN  IF up.result = ReturnNone
               THEN /\ stored_content(up.store, p, v, f) = c
                    /\ stored_digest(up.store, p, v, f) = Sha256(c)
               ELSE /\ stored_content(up.store, p, v, f) = stored_content(store, p, v, f)
                    /\ stored_digest(up.store, p, v, f) = stored_digest(store, p, v, f)
        /\ \A step \in FaultSteps, truncated \in BOOLEAN :
               LET up == Backend_upload_file_fault(store, p, v, f, c, step, truncated)
               IN  up.result.tag = "raise" =>
                       /\ stored_content(up.store, p, v, f) = stored_content(store, p, v, f)
                       /\ stored_digest(up.store, p, v, f) = stored_digest(store, p, v, f)

\* C17: when the stored digest of an artifact differs from the SHA-256 of its
\* stored content, get_file_contents returns the digest recomputed from the
\* content and overwrites the stored digest with it.
DivergenceSelfHeal ==
    \A p \in ProjectNames, v \in Versions, f \in Filenames :
        LET content == stored_content(store, p, v, f)
            got == Backend_get_file_contents(store, p, v, f)
        IN  (/\ artifact_exists(store, p, v, f)
             /\ stored_digest(store, p, v, f) # None
             /\ stored_digest(store, p, v, f) # Sha256(content)) =>
                /\ got.result = FileContents(f, content, Sha256(content))
                /\ stored_digest(got.store, p, v, f) = Sha256(content)

\* C18: started empty and with the same overwrite policy, the two backends
\* return the same result (listing, content and digest, boolean, conflict
\* error) for every call, after every sequence of calls made to both.
BackendEquivalence ==
    /\ LET out == Pair_list_projects(store)
       IN  out.localfs.result = out.azure_blob.result
    /\ \A p \in ProjectNames :
           /\ LET out == Pair_list_project_versions(store, p)
              IN  out.localfs.result = out.azure_blob.result
           /\ LET out == Pair_list_files_for_project(store, p)
              IN  out.localfs.result = out.azure_blob.result
    /\ \A p \in ProjectNames, v \in Versions :
           LET out == Pair_delete_project_version(store, p, v)
           IN  out.localfs.result = out.azure_blob.result
    /\ \A p \in ProjectNames, v \in Versions, f \in Filenames :
           /\ LET out == Pair_get_file_contents(store, p, v, f)
              IN  out.localfs.result = out.azure_blob.result
           /\ LET out == Pair_delete_project_version_file(store, p, v, f)
              IN  out.localfs.result = out.azure_blob.result
           /\ \A c \in Contents, d \in {None, WrongDigest} :
                  LET out == Pair_upload_file(store, p, v, f, c, d)
                  IN  out.localfs.result = out.azure_blob.result

\* C19: for every request to every endpoint of the router, the first thing
\* evaluated is the RBAC decision function, once, with the endpoint's
\* operation type (write for upload, delete for delete-versions, read for the
\* others); backend operations come only after it; and when it returns false
\* the response is 403, no backend operation is invoked and the store is
\* untouched.
AuthorizationPrecedesStorage ==
    \A x \in Prefixes, decision \in BOOLEAN, fallback_enabled \in BOOLEAN :
        LET Authorized(request, operation_type) ==
                LET response == pep503_router(store, request, decision, fallback_enabled)
                    trace == response.trace
                IN  /\ Len(trace) >= 1
                    /\ trace[1].event = "decision"
                    /\ trace[1].operation_type = operation_type
                    /\ \A i \in 2..Len(trace) : trace[i].event = "backend"
                    /\ ~decision =>
                           /\ response.status_code = 403
                           /\ Len(trace) = 1
                           /\ response.store = store
        IN  /\ Authorized(GET_simple(x), "read")
            /\ \A p \in ProjectNames : Authorized(GET_simple_project(x, p), "read")
            /\ \A p \in ProjectNames, v \in Versions, f \in Filenames :
                   Authorized(GET_artifacts(x, p, v, f), "read")
            /\ \A form \in UploadForms : Authorized(POST_upload(x, form), "write")
            /\ Authorized(GET_projects(x), "read")
            /\ \A p \in ProjectNames : Authorized(GET_project_versions(x, p), "read")
            /\ \A p \in ProjectNames, vs \in VersionLists :
                   Authorized(POST_delete_versions(x, p, vs), "delete")

\* C20 as stated: every permitted POST upload calls the backend's upload_file
\* exactly once, with the form's name, version, file name, file bytes and
\* digest (None when the form carries none), and answers 201 when that call
\* returns normally and 409, with a detail naming the file name and the
\* project, exactly when it raises ProjectFileExistsError.
UploadOutcomePerRequest ==
    \A x \in Prefixes, form \in UploadForms :
        LET response == pep503_router(store, POST_upload(x, form), TRUE, FALSE)
            upload == Backend_upload_file(store, form.name, form.version, form.filename,
                                          form.file_content, form.sha256_digest)
            calls == Tail(response.trace)
            Names(detail, name) == \E i \in {2, 4} : detail[i] = name
        IN  /\ calls = <<BackendCall("upload_file",
                             <<form.name, form.version, form.filename,
                               form.file_content, form.sha256_digest>>)>>
            /\ response.store = upload.store
            /\ upload.result = ReturnNone => response.status_code = 201
            /\ response.status_code = 409 <=>
                   upload.result = ProjectFileExistsError(form.filename, form.name)
            /\ response.status_code = 409 =>
                   Names(response.body, form.filename) /\ Names(response.body, form.name)

\* C20, amended: the above for every permitted POST upload whose content part
\* carries a file name; one whose file name is empty is answered 400 and the
\* backend is not called.
UploadOutcomeMapping ==
    \A x \in Prefixes, form \in UploadForms :
        LET response == pep503_router(store, POST_upload(x, form), TRUE, FALSE)
            upload == Backend_upload_file(store, form.name, form.version, form.filename,
                                          form.file_content, form.sha256_digest)
            calls == Tail(response.trace)
            Names(detail, name) == \E i \in {2, 4} : detail[i] = name
        IN  IF form.filename = <<>>
            THEN /\ calls = <<>>
                 /\ response.store = store
                 /\ response.status_code = 400
            ELSE /\ calls = <<BackendCall("upload_file",
                                  <<form.name, form.version, form.filename,
                                    form.file_content, form.sha256_digest>>)>>
                 /\ response.store = upload.store
                 /\ upload.result = ReturnNone => response.status_code = 201
                 /\ response.status_code = 409 <=>
                        upload.result = ProjectFileExistsError(form.filename, form.name)
                 /\ response.status_code = 409 =>
                        /\ Names(response.body, form.filename)
                        /\ Names(response.body, form.name)

\* a store in which one permitted upload is answered 409 and another, with a
\* digest in its form, 201
UploadOutcomeMappingWitness ==
    /\ \E x \in Prefixes, form \in UploadForms :
           /\ form.filename # <<>>
           /\ pep503_router(store, POST_upload(x, form), TRUE, FALSE).status_code = 409
    /\ \E x \in Prefixes, form \in UploadForms :
           /\ form.filename # <<>>
           /\ form.sha256_digest # None
           /\ pep503_router(store, POST_upload(x, form), TRUE, FALSE).status_code = 201

\* C21: a permitted GET artifact is answered 404 exactly when the backend's
\* get_file_contents returns None and otherwise 200 with exactly the content
\* the backend returned; a permitted GET project versions is answered 404
\* exactly when the backend's list_project_versions returns an empty list and
\* otherwise 200 with that list unchanged.
ReadOutcomeMapping ==
    \A x \in Prefixes, p \in ProjectNames :
        /\ \A v \in Versions, f \in Filenames :
               LET got == Backend_get_file_contents(store, p, v, f)
                   response == pep503_router(store, GET_artifacts(x, p, v, f), TRUE, FALSE)
               IN  /\ got.result = ReturnNone => response.status_code = 404
                   /\ got.result.tag = "FileContents" =>
                          /\ response.status_code = 200
                          /\ response.body = got.result.content
                          /\ response.store = got.store
        /\ LET listed == Backend_list_project_versions(store, p)
               response == pep503_router(store, GET_project_versions(x, p), TRUE, FALSE)
           IN  listed.result.tag = "list" =>
                   IF listed.result.value = <<>>
                   THEN response.status_code = 404
                   ELSE /\ response.status_code = 200
                        /\ response.body = listed.result.value

\* C22: a permitted POST delete-versions calls the backend's
\* delete_project_version once per requested version, in request order, and
\* is answered 200 with the requested versions for which the backend returned
\* True, in request order.
DeleteVersionsEndpoint ==
    \A x \in Prefixes, p \in ProjectNames, versions \in VersionLists :
        LET response == pep503_router(store, POST_delete_versions(x, p, versions), TRUE, FALSE)
            first == Backend_delete_project_version(store, p, versions[1])
            second == Backend_delete_project_version(first.store, p, versions[2])
            Deleted(out, version) == IF out.result = ReturnBool(TRUE) THEN <<version>> ELSE <<>>
        IN  /\ Len(response.trace) = 1 + Len(versions)
            /\ \A i \in 1..Len(versions) :
                   response.trace[1 + i] =
                       BackendCall("delete_project_version", <<p, versions[i]>>)
            /\ response.status_code = 200
            /\ Len(versions) = 0 => response.body = <<>>
            /\ Len(versions) = 1 => response.body = Deleted(first, versions[1])
            /\ Len(versions) = 2 =>
                   response.body = Deleted(first, versions[1]) \o Deleted(second, versions[2])

\* C23: under any path prefix, the project name the RBAC check of a request
\* is given, which is what infer_project_name_from_request returns for it, is
\* the project segment for GET .../simple/<p>/, GET .../artifacts/<p>/<v>/<f>,
\* GET .../projects/<p>/versions/ and POST .../projects/<p>/delete-versions/,
\* the form's name for POST .../upload/, and None for GET .../simple/ and
\* GET .../projects/; the inference raises for none of them.
InferenceCoversEveryRoute ==
    \A x \in Prefixes :
        LET Inferred(request, project_name) ==
                LET trace == pep503_router(store, request, TRUE, FALSE).trace
                IN  /\ infer_project_name_from_request(request) = Return(project_name)
                    /\ Len(trace) >= 1
                    /\ trace[1].event = "decision"
                    /\ trace[1].project_name = project_name
        IN  /\ Inferred(GET_simple(x), None)
            /\ Inferred(GET_projects(x), None)
            /\ \A form \in UploadForms : Inferred(POST_upload(x, form), form.name)
            /\ \A p \in ProjectNames :
                   /\ Inferred(GET_simple_project(x, p), p)
                   /\ \A v \in Versions, f \in Filenames : Inferred(GET_artifacts(x, p, v, f), p)
                   /\ Inferred(GET_project_versions(x, p), p)
                   /\ \A versions \in VersionLists :
                          Inferred(POST_delete_versions(x, p, versions), p)

\* C24: the decision function in force permits every request initially and
\* after every reset; after set_project_rbac_decision_func(f) it is f, and
\* nothing but a set or a reset changes it; and in every state a check with
\* the function in force raises the 403 exception when the function returns
\* false for the check's input and returns normally when it returns true.
DecisionFuncState ==
    /\ \A rbac_input \in RbacInputs : project_rbac_decision(rbac_input)
    /\ [][/\ reset_project_rbac_decision_func =>
                 \A rbac_input \in RbacInputs : project_decision_func'[rbac_input]
          /\ \A func \in DecisionFuncs :
                 set_project_rbac_decision_func(func) => project_decision_func' = func
          /\ project_decision_func' # project_decision_func =>
                 \/ reset_project_rbac_decision_func
                 \/ \E func \in DecisionFuncs : set_project_rbac_decision_func(func)]_vars
    /\ [](\A rbac_input \in RbacInputs :
              LET check == check_and_raise_project_rbac(
                               rbac_input, project_rbac_decision(rbac_input))
              IN  /\ check.trace = <<rbac_input>>
                  /\ IF project_decision_func[rbac_input]
                     THEN check.result = ReturnNone
                     ELSE /\ check.result.tag = "raise"
                          /\ check.result.status_code = 403)

\* a function that was set is in force: it denies deleting from project 'r',
\* for which the check raises 403, and permits reading it
DecisionFuncStateWitness ==
    /\ project_decision_func = DecisionFunc({"read", "write"}, {<<"r">>})
    /\ check_and_raise_project_rbac(
           ProjectRBACDecisionInput("delete", <<"r">>),
           project_rbac_decision(ProjectRBACDecisionInput("delete", <<"r">>))).result.status_code = 403
    /\ check_and_raise_project_rbac(
           ProjectRBACDecisionInput("read", <<"r">>),
           project_rbac_decision(ProjectRBACDecisionInput("read", <<"r">>))).result = ReturnNone

\* C25: on the filesystem backend, when an upload_file is interrupted after it
\* has written the content file and before it writes the sidecar, for a new
\* artifact or over an existing one, the next get_file_contents of the
\* artifact returns the content now stored with the SHA-256 of that content.
CrashRecovery ==
    backend = "localfs" =>
        \A p \in ProjectNames, v \in Versions, f \in Filenames, c \in Contents :
            LET up == LocalFSBackend_upload_file_fault(store, allow_overwrite, p, v, f, c,
                                                       "write_sidecar", FALSE)
                got == LocalFSBackend_get_file_contents(up.store, p, v, f).result
            IN  up.result = Raise("OSError") =>
                    /\ stored_content(up.store, p, v, f) = c
                    /\ got.tag = "FileContents"
                    /\ got.content = c
                    /\ got.sha256_digest = Sha256(c)

\* C26: whatever delete_project_version_file and delete_project_version
\* calls returned or failed, at any of their steps, every artifact has its
\* content and its digest companion both present or both absent; in
\* particular no digest is stored for an artifact whose content is absent.
DeleteTogether ==
    \A p \in ProjectNames, v \in Versions, f \in Filenames :
        stored_content(store, p, v, f) = None <=> stored_digest(store, p, v, f) = None

\* C27: on the filesystem backend, delete_project_version_file on an
\* artifact whose content file exists and whose sidecar is absent returns
\* True without raising, and the artifact no longer exists afterwards.
DeleteWithoutSidecar ==
    backend = "localfs" =>
        \A p \in ProjectNames, v \in Versions, f \in Filenames :
            (/\ stored_content(store, p, v, f) # None
             /\ stored_digest(store, p, v, f) = None)
            => LET out == LocalFSBackend_delete_project_version_file(store, p, v, f)
               IN  /\ out.result = ReturnBool(TRUE)
                   /\ ~artifact_exists(out.store, p, v, f)

\* C28: with allow_overwrite false, in any interleaving of concurrent
\* upload_file calls to one (project, version, filename), at most one call
\* writes the artifact, the content that call wrote is not changed by
\* another upload, and every other call fails with ProjectFileExistsError.
OverwriteGuardConcurrent ==
    ~allow_overwrite =>
        LET writers == {i \in DOMAIN in_flight : in_flight[i].wrote}
        IN  /\ Cardinality(writers) <= 1
            /\ \A i \in writers :
                   in_flight[i].pc = "done"
                   => stored_content(store, in_flight[i].project_name, in_flight[i].version,
                                     in_flight[i].filename) = in_flight[i].file_content
            /\ \A i \in DOMAIN in_flight \ writers :
                   in_flight[i].pc = "done"
                   => in_flight[i].result = ProjectFileExistsError(in_flight[i].filename,
                                                                   in_flight[i].project_name)

\* C29: with allow_overwrite true, once two concurrent upload_file calls to
\* one (project, version, filename) have both completed, the stored content
\* is the content of the call that completed last.
LastWriterWins ==
    (/\ allow_overwrite
     /\ Len(in_flight) = 2
     /\ \A i \in DOMAIN in_flight : in_flight[i].pc = "done")
    => LET last == CHOOSE i \in DOMAIN in_flight : in_flight[i].completed = 2
       IN  stored_content(store, in_flight[last].project_name, in_flight[last].version,
                          in_flight[last].filename) = in_flight[last].file_content

\* C30: with allow_overwrite true, once concurrent upload_file calls to one
\* (project, version, filename), each passing no digest or the digest of
\* its own content, have all completed, the stored digest is the SHA-256
\* of the stored content.
DigestFollowsContentConcurrent ==
    (/\ allow_overwrite
     /\ in_flight # NoCalls
     /\ \A i \in DOMAIN in_flight :
            /\ in_flight[i].pc = "done"
            /\ in_flight[i].sha256_digest \in {None, Sha256(in_flight[i].file_content)})
    => \A i \in DOMAIN in_flight :
           stored_digest(store, in_flight[i].project_name, in_flight[i].version,
                         in_flight[i].filename)
               = Sha256(stored_content(store, in_flight[i].project_name, in_flight[i].version,
                                       in_flight[i].filename))

\* C31: with allow_overwrite true, one get_file_contents and one
\* concurrent upload_file of the same artifact, both completed, leave the
\* upload's content stored, with the upload's digest or with the SHA-256 of
\* the content the get read; the second outcome, the digest of the old
\* content persisted beside the new content, is reachable (the witness).
SelfHealRace ==
    \A g, u \in DOMAIN in_flight :
        (/\ allow_overwrite
         /\ Len(in_flight) = 2
         /\ in_flight[g].operation = "get_file_contents"
         /\ in_flight[u].operation = "upload_file"
         /\ in_flight[g].pc = "done"
         /\ in_flight[u].pc = "done")
        => /\ in_flight[u].result = ReturnNone
           /\ stored_content(store, in_flight[u].project_name, in_flight[u].version,
                             in_flight[u].filename) = in_flight[u].file_content
           /\ stored_digest(store, in_flight[u].project_name, in_flight[u].version,
                            in_flight[u].filename)
                  \in {set_sha256_digest(in_flight[u].file_content, in_flight[u].sha256_digest),
                       Sha256(in_flight[g].content)}

SelfHealRaceWitness ==
    \E g, u \in DOMAIN in_flight :
        /\ allow_overwrite
        /\ in_flight[g].operation = "get_file_contents"
        /\ in_flight[u].operation = "upload_file"
        /\ in_flight[g].pc = "done"
        /\ in_flight[u].pc = "done"
        /\ in_flight[g].wrote
        /\ in_flight[g].content = ExternalContent
        /\ stored_content(store, in_flight[u].project_name, in_flight[u].version,
                          in_flight[u].filename) = in_flight[u].file_content
        /\ stored_digest(store, in_flight[g].project_name, in_flight[g].version,
                         in_flight[g].filename) = Sha256(ExternalContent)

\* C32: in any interleaving of a get_file_contents call with concurrent
\* overwriting uploads of the same artifact, each carrying the digest of
\* its own content, the digest the get returns is the SHA-256 of the
\* content it returns.
ConsistentRead ==
    \A g \in DOMAIN in_flight :
        (/\ allow_overwrite
         /\ in_flight[g].operation = "get_file_contents"
         /\ in_flight[g].pc = "done"
         /\ in_flight[g].result.tag = "FileContents"
         /\ \A u \in DOMAIN in_flight \ {g} :
                /\ in_flight[u].operation = "upload_file"
                /\ in_flight[u].sha256_digest = Sha256(in_flight[u].file_content))
        => in_flight[g].result.sha256_digest = Sha256(in_flight[g].result.content)

\* C33: in any interleaving of a get_file_contents call with a concurrent
\* delete_project_version_file or delete_project_version of the same
\* artifact, the get returns a FileContents or None and never raises, and
\* once both have completed no digest is stored for the deleted artifact
\* (the get has not re-created the sidecar).
ReadVersusDelete ==
    \A g, d \in DOMAIN in_flight :
        (/\ Len(in_flight) = 2
         /\ in_flight[g].operation = "get_file_contents"
         /\ in_flight[d].operation \in {"delete_project_version_file",
                                        "delete_project_version"}
         /\ in_flight[g].pc = "done")
        => /\ in_flight[g].result.tag \in {"FileContents", "None"}
           /\ (in_flight[d].pc = "done" /\ in_flight[d].result = ReturnBool(TRUE))
              => stored_digest(store, in_flight[g].project_name, in_flight[g].version,
                               in_flight[g].filename) = None

\* C34: on the Azure backend, under any interleaving of upload_file calls,
\* every step that changes a blob is the upload_blob of one call and leaves
\* the blob with that call's content and that call's digest as its sha256
\* metadata; so in every state each blob carries the content and the
\* digest of one and the same call, never new content with an old or
\* missing digest.
UploadBlobOneStep ==
    /\ [][backend = "azure_blob" =>
             \A name \in DOMAIN store' :
                 (name \notin DOMAIN store \/ store'[name] # store[name])
                 => \E i \in DOMAIN in_flight :
                        /\ in_flight[i].pc = "upload_blob"
                        /\ in_flight'[i].pc = "done"
                        /\ store'[name] =
                               Blob(in_flight[i].file_content,
                                    Sha256Metadata(set_sha256_digest(
                                        in_flight[i].file_content,
                                        in_flight[i].sha256_digest)))]_vars
    /\ [](backend = "azure_blob" =>
             \A name \in DOMAIN store :
                 \E i \in DOMAIN in_flight :
                     /\ in_flight[i].wrote
                     /\ store[name].data = in_flight[i].file_content
                     /\ metadata_get_sha256(store[name].metadata) =
                            set_sha256_digest(in_flight[i].file_content,
                                              in_flight[i].sha256_digest))

UploadBlobOneStepWitness ==
    /\ backend = "azure_blob"
    /\ \E i, j \in DOMAIN in_flight, name \in DOMAIN store :
           /\ in_flight[i].wrote /\ in_flight[j].wrote
           /\ in_flight[i].completed < in_flight[j].completed
           /\ in_flight[i].file_content # in_flight[j].file_content
           /\ store[name] = Blob(in_flight[j].file_content,
                                 Sha256Metadata(Sha256(in_flight[j].file_content)))

\* C35: on the Azure backend, when delete_project_version has listed n
\* blobs and the delete_blob of the k-th fails, the call raises, the k-1
\* blobs before it are gone, the k-th and those after it are still stored
\* unchanged, as is every blob outside the version; a delete_project_version
\* of the same version after that returns True and leaves no blob of it.
PartialVersionDelete ==
    backend = "azure_blob" =>
        \A p \in ExternalNames, v \in Versions :
            LET blob_name_prefix == base_path \o p \o Slash \o v \o Slash
                listed == SortedNames({<<name, name>> :
                                          name \in list_blobs(store, blob_name_prefix)})
            IN  \A k \in 1..Len(listed) :
                    LET out == AzureBlobBackend_delete_project_version_fault(
                                   store, p, v, "delete_blob", k)
                        later == AzureBlobBackend_delete_project_version(out.store, p, v)
                    IN  /\ out.result = Raise("OSError")
                        /\ \A i \in 1..(k - 1) : listed[i] \notin DOMAIN out.store
                        /\ \A i \in k..Len(listed) :
                               /\ listed[i] \in DOMAIN out.store
                               /\ out.store[listed[i]] = store[listed[i]]
                        /\ \A name \in DOMAIN store \ list_blobs(store, blob_name_prefix) :
                               /\ name \in DOMAIN out.store
                               /\ out.store[name] = store[name]
                        /\ DOMAIN out.store \subseteq DOMAIN store
                        /\ later.result = ReturnBool(TRUE)
                        /\ list_blobs(later.store, blob_name_prefix) = {}

PartialVersionDeleteWitness ==
    /\ backend = "azure_blob"
    /\ \E p \in ExternalNames, v \in Versions :
           LET blob_name_prefix == base_path \o p \o Slash \o v \o Slash
               out == AzureBlobBackend_delete_project_version_fault(
                          store, p, v, "delete_blob", 2)
           IN  /\ Cardinality(list_blobs(store, blob_name_prefix)) = 2
               /\ Cardinality(list_blobs(out.store, blob_name_prefix)) = 1
               /\ out.result = Raise("OSError")

\* C36: on the Azure backend, every entry list_projects returns is a
\* virtual directory under the base path: some blob is stored under
\* <base_path><entry>/.  A blob stored directly under the base path is not
\* returned as a project.
ListProjectsDirectoriesOnly ==
    backend = "azure_blob" =>
        LET out == AzureBlobBackend_list_projects(store)
        IN  /\ out.result.tag = "list"
            /\ \A i \in DOMAIN out.result.value :
                   \E name \in DOMAIN store :
                       StartsWith(name, base_path \o out.result.value[i] \o Slash)

\* C37: on both backends, an entry stored directly under a project, not
\* inside a version, produces no entry of list_files_for_project and no
\* error: every entry returned is an artifact stored inside a version, and
\* a project holding only such stray entries yields the empty list.
StrayEntriesIgnored ==
    \A p \in ProjectNames :
        LET out == Backend_list_files_for_project(store, p)
        IN  /\ out.result.tag = "list"
            /\ \A i \in DOMAIN out.result.value :
                   artifact_exists(store, p, out.result.value[i].version,
                                   out.result.value[i].filename)
            /\ (\A v \in Versions, f \in Filenames : ~artifact_exists(store, p, v, f))
               => out.result.value = <<>>

\* C38: list_projects, list_project_versions and list_files_for_project
\* leave the store as it is.  get_file_contents leaves every entry of the
\* store as it is, content and stored digest alike, except that it may add
\* the digest of the artifact it was asked for, the SHA-256 of its content,
\* when that artifact exists and had no stored digest.
ReadsDoNotMutate ==
    /\ Backend_list_projects(store).store = store
    /\ \A p \in ProjectNames :
           /\ Backend_list_project_versions(store, p).store = store
           /\ Backend_list_files_for_project(store, p).store = store
    /\ \A p \in ProjectNames, v \in Versions, f \in Filenames :
           LET after == Backend_get_file_contents(store, p, v, f).store
           IN  after # store
               => /\ stored_content(store, p, v, f) # None
                  /\ stored_digest(store, p, v, f) = None
                  /\ stored_content(after, p, v, f) = stored_content(store, p, v, f)
                  /\ stored_digest(after, p, v, f) = Sha256(stored_content(store, p, v, f))
                  /\ all_entries(after) \ all_entries(store) \subseteq artifact_entries(p, v, f)
                  /\ \A k \in all_entries(store) \ artifact_entries(p, v, f) :
                         /\ k \in all_entries(after)
                         /\ entry_value(after, k) = entry_value(store, k)

ReadsDoNotMutateWitness ==
    \E p \in ProjectNames, v \in Versions, f \in Filenames :
        LET after == Backend_get_file_contents(store, p, v, f).store
        IN  /\ stored_content(store, p, v, f) = ExternalContent
            /\ stored_digest(store, p, v, f) = None
            /\ stored_digest(after, p, v, f) = Sha256(ExternalContent)
            /\ \E w \in Versions, g \in Filenames :
                   /\ stored_digest(store, p, w, g) = WrongDigest
                   /\ stored_digest(after, p, w, g) = WrongDigest

\* C39 (as stated): a configuration with a malformed destination path or an
\* unparsable connection string never yields a backend: whenever a backend has
\* been constructed, its destination path matches the pattern and its
\* connection string, when it has one, parses, so that no operation is ever
\* started on a backend built from such a configuration.
ConfigFaultsFailAtConstruction ==
    config.tag = "AzureBlobConfig" =>
        /\ DESTINATION_PATH_PATTERN_match(config.destination_path) # None
        /\ Truthy(config.connection_string) =>
               parse_connection_str(config.connection_string).tag # "raise"

\* C39 (amended): a malformed destination path (or a connection method
\* outside the Literal) fails at construction; an unparsable connection string
\* is accepted at construction and fails with ValueError when an operation
\* opens the container client, before any storage I/O: every call on such a
\* backend raised ValueError without the client, and the container is untouched.
ConfigFaultsBeforeIO ==
    /\ config.tag = "AzureBlobConfig" =>
           /\ DESTINATION_PATH_PATTERN_match(config.destination_path) # None
           /\ config.connection_method \in {"default", "managed_identity"}
    /\ config.tag # "AzureBlobConfig" => in_flight = NoCalls /\ store = [x \in {} |-> None]
    /\ (/\ config.tag = "AzureBlobConfig"
        /\ Truthy(config.connection_string)
        /\ parse_connection_str(config.connection_string).tag = "raise") =>
           /\ store = [x \in {} |-> None]
           /\ \A i \in 1..Len(in_flight) :
                  /\ in_flight[i].io = FALSE
                  /\ in_flight[i].result = Raise("ValueError")

\* a backend built from an unparsable connection string on which an upload was
\* started and raised ValueError
ConfigFaultsBeforeIOWitness ==
    /\ config.tag = "AzureBlobConfig"
    /\ Truthy(config.connection_string)
    /\ parse_connection_str(config.connection_string).tag = "raise"
    /\ \E i \in 1..Len(in_flight) :
           /\ in_flight[i].operation = "upload_file"
           /\ in_flight[i].result = Raise("ValueError")

====
